---- MODULE Spec2Model ----
(***************************************************************************)
(* Model of the lead-qualification conversation engine                     *)
(* (app/services/orchestration_service.py, IntelligentHybridOrchestrator). *)
(* Messages, answers and responses are strings; the validators, the        *)
(* normalizers and the interpolator are computed character by character    *)
(* the way the Python code computes them.                                  *)
(***************************************************************************)
EXTENDS Integers, Sequences, FiniteSets, TLC

(***************************************************************************)
(* Python string primitives used by the engine.                            *)
(***************************************************************************)
Ch(s, i) == SubSeq(s, i, i)

Drop(s, n) == SubSeq(s, n + 1, Len(s))

Take(s, n) == SubSeq(s, 1, n)

DigitChars == {"0", "1", "2", "3", "4", "5", "6", "7", "8", "9"}

UpperChars == "ABCDEFGHIJKLMNOPQRSTUVWXYZÁÉÍÓÚÃÕÂÊÔÇ"

LowerChars == "abcdefghijklmnopqrstuvwxyzáéíóúãõâêôç"

LetterSet == {Ch(UpperChars, i) : i \in 1..Len(UpperChars)}
                 \cup {Ch(LowerChars, i) : i \in 1..Len(LowerChars)}

AsciiLetterSet == {Ch(UpperChars, i) : i \in 1..26} \cup {Ch(LowerChars, i) : i \in 1..26}

SpaceChars == {" ", "\t", "\n"}

\* str.lower() on one character
ToLower ==
    [c \in {Ch(UpperChars, i) : i \in 1..Len(UpperChars)} |->
        Ch(LowerChars, CHOOSE i \in 1..Len(UpperChars) : Ch(UpperChars, i) = c)]

LowerCh(c) == IF c \in DOMAIN ToLower THEN ToLower[c] ELSE c

\* str.upper() on one character
ToUpper ==
    [c \in {Ch(LowerChars, i) : i \in 1..Len(LowerChars)} |->
        Ch(UpperChars, CHOOSE i \in 1..Len(LowerChars) : Ch(LowerChars, i) = c)]

UpperCh(c) == IF c \in DOMAIN ToUpper THEN ToUpper[c] ELSE c

RECURSIVE Lower(_)
Lower(s) == IF s = "" THEN "" ELSE LowerCh(Ch(s, 1)) \o Lower(Drop(s, 1))

RECURSIVE LStrip(_)
LStrip(s) == IF s # "" /\ Ch(s, 1) \in SpaceChars THEN LStrip(Drop(s, 1)) ELSE s

RECURSIVE RStrip(_)
RStrip(s) ==
    IF s # "" /\ Ch(s, Len(s)) \in SpaceChars THEN RStrip(Take(s, Len(s) - 1)) ELSE s

\* str.strip()
Strip(s) == RStrip(LStrip(s))

\* ''.join(filter(str.isdigit, s))
RECURSIVE DigitsOf(_)
DigitsOf(s) ==
    IF s = "" THEN ""
    ELSE (IF Ch(s, 1) \in DigitChars THEN Ch(s, 1) ELSE "") \o DigitsOf(Drop(s, 1))

\* str.isdigit(): non-empty and every character a digit
IsDigit(s) == s # "" /\ \A i \in 1..Len(s) : Ch(s, i) \in DigitChars

\* sub in s
Contains(s, sub) ==
    \E i \in 1..(Len(s) - Len(sub) + 1) : SubSeq(s, i, i + Len(sub) - 1) = sub

StartsWith(s, p) == Len(s) >= Len(p) /\ Take(s, Len(p)) = p

\* s.find(sub) + 1, 0 when absent
IndexOf(s, sub) ==
    IF Contains(s, sub)
    THEN CHOOSE i \in 1..(Len(s) - Len(sub) + 1) :
            /\ SubSeq(s, i, i + Len(sub) - 1) = sub
            /\ \A j \in 1..(i - 1) : SubSeq(s, j, j + Len(sub) - 1) # sub
    ELSE 0

\* s.replace(old, new), old non-empty
RECURSIVE Replace(_, _, _)
Replace(s, old, new) ==
    LET i == IndexOf(s, old)
    IN  IF i = 0 THEN s
        ELSE Take(s, i - 1) \o new \o Replace(Drop(s, i + Len(old) - 1), old, new)

\* length of the first whitespace-free run of s
RECURSIVE WordLen(_)
WordLen(s) == IF s = "" \/ Ch(s, 1) \in SpaceChars THEN 0 ELSE 1 + WordLen(Drop(s, 1))

\* str.split(): the whitespace-separated tokens
RECURSIVE Split(_)
Split(s) ==
    LET t == LStrip(s)
        n == WordLen(t)
    IN  IF t = "" THEN <<>> ELSE <<Take(t, n)>> \o Split(Drop(t, n))

\* " ".join(words)
RECURSIVE Join(_)
Join(ws) ==
    IF ws = <<>> THEN ""
    ELSE IF Len(ws) = 1 THEN ws[1]
    ELSE ws[1] \o " " \o Join(Tail(ws))

\* str.capitalize(): first character upper-cased, the rest lower-cased
Capitalize(s) == IF s = "" THEN "" ELSE UpperCh(Ch(s, 1)) \o Lower(Drop(s, 1))

\* str.title(): a letter is upper-cased after a non-letter, lower-cased after a letter
RECURSIVE TitleFrom(_, _)
TitleFrom(s, prevLetter) ==
    IF s = "" THEN ""
    ELSE LET c == Ch(s, 1)
         IN  (IF prevLetter THEN LowerCh(c) ELSE UpperCh(c))
                 \o TitleFrom(Drop(s, 1), c \in LetterSet)

Title(s) == TitleFrom(s, FALSE)

\* len(set(s.replace(' ', '')))
DistinctNonSpace(s) == Cardinality({Ch(s, i) : i \in 1..Len(s)} \ {" "})

(***************************************************************************)
(* Regular expressions of the engine.                                      *)
(***************************************************************************)
AllDigits(s, i, n) == i >= 1 /\ i + n - 1 <= Len(s) /\ \A j \in i..(i + n - 1) : Ch(s, j) \in DigitChars

\* re.search(r'\d{10,11}', s): the match, "" when there is none
PhoneRun(s) ==
    IF \E i \in 1..Len(s) : AllDigits(s, i, 10)
    THEN LET i == CHOOSE k \in 1..Len(s) :
                     AllDigits(s, k, 10) /\ \A j \in 1..(k - 1) : ~AllDigits(s, j, 10)
         IN  IF AllDigits(s, i, 11) THEN SubSeq(s, i, i + 10) ELSE SubSeq(s, i, i + 9)
    ELSE ""

EmailLocalChars == AsciiLetterSet \cup DigitChars \cup {".", "_", "%", "+", "-"}

EmailDomainChars == AsciiLetterSet \cup DigitChars \cup {".", "-"}

\* the maximal run of characters of cs that starts at position i of s ends before RunEnd
RECURSIVE RunEnd(_, _, _)
RunEnd(s, i, cs) == IF i <= Len(s) /\ Ch(s, i) \in cs THEN RunEnd(s, i + 1, cs) ELSE i

\* a match of [local]+@[domain]+\.[A-Za-z]{2,} starts at i, has its '@' at a and its last '.' at d
EmailAt(s, i, a, d) ==
    /\ 1 <= i /\ i < a /\ a + 1 < d /\ d + 2 <= Len(s)
    /\ Ch(s, a) = "@" /\ Ch(s, d) = "."
    /\ \A j \in i..(a - 1) : Ch(s, j) \in EmailLocalChars
    /\ \A j \in (a + 1)..(d - 1) : Ch(s, j) \in EmailDomainChars
    /\ Ch(s, d + 1) \in AsciiLetterSet /\ Ch(s, d + 2) \in AsciiLetterSet

\* the start of the maximal run of characters of cs that ends at position i of s
RECURSIVE RunStart(_, _, _)
RunStart(s, i, cs) == IF i >= 1 /\ Ch(s, i) \in cs THEN RunStart(s, i - 1, cs) ELSE i + 1

\* the pattern matches with its '@' at position a: the local part cannot hold
\* an '@', so it is a run of local characters that ends right before a
EmailWithAt(s, a) ==
    /\ a > 1 /\ Ch(s, a) = "@" /\ Ch(s, a - 1) \in EmailLocalChars
    /\ \E d \in (a + 2)..(Len(s) - 2) : EmailAt(s, a - 1, a, d)

HasEmail(s) == \E a \in 1..Len(s) : EmailWithAt(s, a)

\* re.search(email pattern, s): leftmost start, greedy domain, greedy top-level part
EmailMatch(s) ==
    IF ~HasEmail(s) THEN ""
    ELSE LET a == CHOOSE k \in 1..Len(s) :
                     EmailWithAt(s, k) /\ \A j \in 1..(k - 1) : ~EmailWithAt(s, j)
             i == RunStart(s, a - 1, EmailLocalChars)
             d == CHOOSE k \in (a + 2)..(Len(s) - 2) :
                     /\ EmailAt(s, i, a, k)
                     /\ \A j \in (k + 1)..(Len(s) - 2) : ~EmailAt(s, i, a, j)
         IN  SubSeq(s, i, RunEnd(s, d + 1, AsciiLetterSet) - 1)

(***************************************************************************)
(* Python dicts: lead_data (field -> text) and validation_attempts         *)
(* (step id -> count).                                                     *)
(***************************************************************************)
EmptyDict == [k \in {} |-> ""]

Put(d, k, v) == [y \in (DOMAIN d) \cup {k} |-> IF y = k THEN v ELSE d[y]]

\* d.get(k, default)
Get(d, k, default) == IF k \in DOMAIN d THEN d[k] ELSE default

(***************************************************************************)
(* The flow definition (the hardcoded flow of _get_schema_flow). The        *)
(* literal text of the questions is abridged; the placeholders are kept.   *)
(***************************************************************************)
Steps ==
    << [id |-> 1, field |-> "identification", type |-> "name",
        min_length |-> 2, min_words |-> 1,
        question |-> "Ola! Seja bem-vindo ao m.lima. Qual e o seu nome completo?",
        error_message |-> "Por favor, informe seu nome completo (nome e sobrenome)."],
       [id |-> 2, field |-> "contact_info", type |-> "contact_combined",
        min_length |-> 10, min_words |-> 1,
        question |-> "Prazer, {user_name}! Qual o melhor telefone/WhatsApp e e-mail?",
        error_message |-> "Por favor, informe seu telefone (com DDD) e e-mail."],
       [id |-> 3, field |-> "area_qualification", type |-> "area",
        min_length |-> 3, min_words |-> 1,
        question |-> "Perfeito, {user_name}! Qual area do direito? Penal ou Saude",
        error_message |-> "Por favor, escolha uma das areas disponiveis: Penal ou Saude."],
       [id |-> 4, field |-> "case_details", type |-> "case_description",
        min_length |-> 20, min_words |-> 5,
        question |-> "Entendi, {user_name}. Me diga sobre sua situacao em {area}:",
        error_message |-> "Por favor, me conte mais detalhes sobre sua situacao."],
       [id |-> 5, field |-> "lead_warming", type |-> "confirmation",
        min_length |-> 1, min_words |-> 1,
        question |-> "Obrigado, {user_name}. Casos em {area} exigem atencao. Esta tudo certo?",
        error_message |-> "Por favor, confirme. Digite 'sim' ou 'nao'."] >>

StepIds == {Steps[i].id : i \in 1..Len(Steps)}

\* next((s for s in steps if s["id"] == step_id), None); only used when it exists
StepById(step_id) == Steps[CHOOSE i \in 1..Len(Steps) : Steps[i].id = step_id]

\* self.invalid_responses, all categories together
InvalidResponses ==
    {"oi", "olá", "ola", "hello", "hi", "hey", "e ai", "eai", "opa",
     "ok", "sim", "não", "nao", "yes", "no", "k", "kk", "kkk",
     "teste", "test", "123", "abc", "aaa", "bbb", "ccc", "xxx",
     "p.o.", "po", "p.o", ".", "..", "...", "a", "aa", "bb", "cc"}

\* the greeting tokens short-circuited on step 1
GreetingTokens == {"oi", "olá", "hello", "hi", "ola", "hey", "e ai", "eai"}

AreaPenalKeywords == {"penal", "criminal", "crime", "direito penal"}

AreaSaudeKeywords ==
    {"saude", "saúde", "liminar", "saude liminar", "saúde liminar", "medica", "médica",
     "health", "injunction"}

ValidAreas == {"penal", "criminal", "crime", "saude", "saúde", "liminar", "medica", "médica"}

ContactKeywords == {"telefone", "celular", "whatsapp", "email", "gmail", "hotmail"}

\* the affirmative tokens of the normalizer (line 545)
NormalizeConfirmations ==
    {"sim", "ok", "pode", "claro", "vamos", "confirmo", "confirmado", "s", "yes"}

\* the affirmative tokens of the acceptance test (line 660)
Confirmations == {"sim", "ok", "pode", "claro", "vamos", "confirmo", "certo", "yes", "s"}

ContainsAny(s, subs) == \E k \in subs : Contains(s, k)

(***************************************************************************)
(* Validator & Normalizer.                                                 *)
(***************************************************************************)
IsInvalidResponse(response) ==
    LET response_lower == Strip(Lower(response))
    IN  \/ Strip(response) = ""
        \/ Len(response_lower) < 2
        \/ IsDigit(response_lower) /\ Len(response_lower) < 4
        \/ DistinctNonSpace(response_lower) <= 2 /\ Len(response_lower) < 4
        \/ response_lower \in InvalidResponses

RECURSIVE CapitalizeAll(_)
CapitalizeAll(ws) == IF ws = <<>> THEN <<>> ELSE <<Capitalize(ws[1])>> \o CapitalizeAll(Tail(ws))

ValidateAndNormalizeAnswerSchema(raw, step) ==
    LET answer == Strip(raw)
    IN  IF step.type = "name" \/ step.id = 1
        THEN IF IsInvalidResponse(answer) THEN answer
             ELSE IF Len(Split(answer)) >= 2 THEN Join(CapitalizeAll(Split(answer)))
             ELSE Capitalize(answer)
        ELSE IF step.type = "contact_combined" \/ step.id = 2 THEN answer
        ELSE IF step.type = "area" \/ step.id = 3
        THEN IF ContainsAny(Lower(answer), AreaPenalKeywords) THEN "Direito Penal"
             ELSE IF ContainsAny(Lower(answer), AreaSaudeKeywords) THEN "Saúde/Liminares"
             ELSE Title(answer)
        ELSE IF step.type = "case_description" \/ step.id = 4 THEN answer
        ELSE IF step.type = "confirmation" \/ step.id = 5
        THEN IF ContainsAny(Lower(answer), NormalizeConfirmations) THEN "Confirmado"
             ELSE answer
        ELSE IF step.type = "phone" THEN DigitsOf(answer)
        ELSE answer

\* the words of the name test: tokens of length >= 2
LongWords(answer) == {i \in 1..Len(Split(answer)) : Len(Split(answer)[i]) >= 2}

\* lines 579-600
ShouldAdvanceName(answer, is_flexible) ==
    /\ ~IsInvalidResponse(answer)
    /\ ~IsDigit(answer)
    /\ IF is_flexible
       THEN Cardinality(LongWords(answer)) >= 1 /\ Len(answer) >= 2
       ELSE Cardinality(LongWords(answer)) >= 1 /\ Len(answer) >= 2

\* faulty variant: a contact keyword is enough in strict mode too
ShouldAdvanceContactByKeyword(answer, step, is_flexible) ==
    LET has_phone == PhoneRun(answer) # ""
        has_email == HasEmail(answer)
        has_contact_keywords == ContainsAny(Lower(answer), ContactKeywords)
    IN  IF is_flexible
        THEN has_phone \/ has_email \/ has_contact_keywords \/ Len(answer) >= 8
        ELSE (has_phone \/ has_email \/ has_contact_keywords)
                 /\ Len(answer) >= step.min_length

\* lines 602-620
ShouldAdvanceContact(answer, step, is_flexible) ==
    LET has_phone == PhoneRun(answer) # ""
        has_email == HasEmail(answer)
        has_contact_keywords == ContainsAny(Lower(answer), ContactKeywords)
    IN  IF is_flexible
        THEN has_phone \/ has_email \/ has_contact_keywords \/ Len(answer) >= 8
        ELSE (has_phone \/ has_email) /\ Len(answer) >= step.min_length

\* faulty variant: the area step is not relaxed in flexible mode
ShouldAdvanceAreaNeverRelaxed(answer, is_flexible) ==
    ContainsAny(Lower(answer), ValidAreas)

\* lines 622-639
ShouldAdvanceArea(answer, is_flexible) ==
    LET has_valid_area == ContainsAny(Lower(answer), ValidAreas)
    IN  IF is_flexible THEN has_valid_area \/ Len(answer) >= 4 ELSE has_valid_area

\* faulty variant: the relaxed mode asks for a longer case description than the strict one
ShouldAdvanceCaseDetailsLongerWhenFlexible(answer, step, is_flexible) ==
    IF is_flexible
    THEN Len(answer) >= 30 /\ Len(Split(answer)) >= 4
    ELSE Len(answer) >= step.min_length /\ Len(Split(answer)) >= step.min_words

\* lines 641-654
ShouldAdvanceCaseDetails(answer, step, is_flexible) ==
    IF is_flexible
    THEN Len(answer) >= 15 /\ Len(Split(answer)) >= 4
    ELSE Len(answer) >= step.min_length /\ Len(Split(answer)) >= step.min_words

\* faulty variant: the confirmation step asks for an affirmative keyword
ShouldAdvanceConfirmationByKeyword(answer) == ContainsAny(Lower(answer), Confirmations)

\* faulty variant: the confirmation step turns a negative answer down
ShouldAdvanceConfirmationRejectingNegatives(answer) ==
    /\ ContainsAny(Lower(answer), Confirmations) \/ Len(answer) >= 2
    /\ Lower(answer) \notin {"não", "nao", "no"}

\* lines 656-668
ShouldAdvanceConfirmation(answer) ==
    ContainsAny(Lower(answer), Confirmations) \/ Len(answer) >= 2

\* faulty variant: strict contact acceptance asks for a phone and an e-mail
ShouldAdvanceContactBoth(answer, step, is_flexible) ==
    IF is_flexible THEN ShouldAdvanceContact(answer, step, is_flexible)
    ELSE PhoneRun(answer) # "" /\ HasEmail(answer) /\ Len(answer) >= step.min_length

ShouldAdvanceStepSchemaContactBoth(raw, step, is_flexible) ==
    IF Strip(raw) = "" THEN FALSE
    ELSE IF step.id = 1 THEN ShouldAdvanceName(Strip(raw), is_flexible)
    ELSE IF step.id = 2 THEN ShouldAdvanceContactBoth(Strip(raw), step, is_flexible)
    ELSE IF step.id = 3 THEN ShouldAdvanceArea(Strip(raw), is_flexible)
    ELSE IF step.id = 4 THEN ShouldAdvanceCaseDetails(Strip(raw), step, is_flexible)
    ELSE IF step.id = 5 THEN ShouldAdvanceConfirmation(Strip(raw))
    ELSE Len(Strip(raw)) >= (IF is_flexible THEN 2 ELSE step.min_length)

\* _should_advance_step_schema
ShouldAdvanceStepSchema(raw, step, is_flexible) ==
    IF Strip(raw) = "" THEN FALSE
    ELSE IF step.id = 1 THEN ShouldAdvanceName(Strip(raw), is_flexible)
    ELSE IF step.id = 2 THEN ShouldAdvanceContact(Strip(raw), step, is_flexible)
    ELSE IF step.id = 3 THEN ShouldAdvanceArea(Strip(raw), is_flexible)
    ELSE IF step.id = 4 THEN ShouldAdvanceCaseDetails(Strip(raw), step, is_flexible)
    ELSE IF step.id = 5 THEN ShouldAdvanceConfirmation(Strip(raw))
    ELSE Len(Strip(raw)) >= (IF is_flexible THEN 2 ELSE step.min_length)

\* _extract_contact_info: (phone, email), "" for a part that is absent
ExtractContactInfo(contact_text) ==
    [phone |-> PhoneRun(contact_text), email |-> EmailMatch(contact_text)]

\* _is_phone_number
IsPhoneNumber(message) == Len(DigitsOf(message)) >= 10 /\ Len(DigitsOf(message)) <= 13

\* faulty variant: the mobile 9 is never inserted
FormatBrazilianPhoneWithoutNinthDigit(phone) ==
    IF phone = "" THEN ""
    ELSE LET d0 == DigitsOf(phone)
         IN  "55" \o (IF StartsWith(d0, "55") THEN Drop(d0, 2) ELSE d0)

\* faulty variant: a leading country code is kept and prefixed again
FormatBrazilianPhoneKeepingCountryCode(phone) ==
    IF phone = "" THEN ""
    ELSE LET d == DigitsOf(phone)
         IN  IF Len(d) = 10 /\ Ch(d, 3) \in {"6", "7", "8", "9"}
             THEN "55" \o Take(d, 2) \o "9" \o Drop(d, 2)
             ELSE "55" \o d

\* _format_brazilian_phone
FormatBrazilianPhone(phone) ==
    IF phone = "" THEN ""
    ELSE LET d0 == DigitsOf(phone)
             d  == IF StartsWith(d0, "55") THEN Drop(d0, 2) ELSE d0
         IN  IF Len(d) = 10 /\ Ch(d, 3) \in {"6", "7", "8", "9"}
             THEN "55" \o Take(d, 2) \o "9" \o Drop(d, 2)
             ELSE "55" \o d

(***************************************************************************)
(* Interpolator.                                                           *)
(***************************************************************************)
\* faulty variant: the summary is cut to 100 characters without the ellipsis
CaseSummaryWithoutEllipsis(lead_data) ==
    LET cd == Get(lead_data, "case_details", "")
    IN  IF cd # "" /\ Len(cd) > 100 THEN Take(cd, 100) ELSE cd

CaseSummary(lead_data) ==
    LET cd == Get(lead_data, "case_details", "")
    IN  IF cd # "" /\ Len(cd) > 100 THEN Take(cd, 100) \o "..." ELSE cd

\* interpolation_data, in the order of the dict
InterpolationData(lead_data) ==
    << <<"{user_name}", Get(lead_data, "identification", "")>>,
       <<"{area}", Get(lead_data, "area_qualification", "")>>,
       <<"{contact_info}", Get(lead_data, "contact_info", "")>>,
       <<"{case_details}", Get(lead_data, "case_details", "")>>,
       <<"{phone}", Get(lead_data, "phone", "")>>,
       <<"{case_summary}", CaseSummary(lead_data)>> >>

RECURSIVE InterpolateFrom(_, _, _)
InterpolateFrom(message, data, i) ==
    IF i > Len(data) THEN message
    ELSE InterpolateFrom(
            IF data[i][2] # "" /\ Contains(message, data[i][1])
            THEN Replace(message, data[i][1], data[i][2]) ELSE message,
            data, i + 1)

InterpolateMessage(message, lead_data) ==
    IF message = "" THEN "Como posso ajuda-lo?"
    ELSE InterpolateFrom(message, InterpolationData(lead_data), 1)

(***************************************************************************)
(* Fixed texts of the engine (abridged, ASCII).                            *)
(***************************************************************************)
CompletedAck(user_name) ==
    "Obrigado " \o user_name \o "! Nossa equipe ja foi notificada e entrara em contato em breve."

FallbackRecoveryPrompt == "Ola! Seja bem-vindo ao m.lima. Me conte como e seu nome inteiro?"

OrchestrationRecoveryPrompt ==
    "Ola! Seja bem-vindo ao m.lima. Vamos iniciar, qual e o seu nome completo?"

PhoneRequestPrompt ==
    "Para finalizar, preciso do seu numero de WhatsApp com DDD (exemplo: 11999999999):"

InvalidPhonePrompt ==
    "Numero invalido. Por favor, digite no formato com DDD (exemplo: 11999999999):"

FinalizationFallback(user_name) ==
    "Obrigado pelas informacoes, " \o user_name \o "! Nossa equipe entrara em contato em breve."

WhatsAppSentNote == "Confirmacao enviada no seu WhatsApp!"

WhatsAppFailedNote ==
    "Suas informacoes foram salvas, mas houve um problema ao enviar a confirmacao no WhatsApp."

FinalMessage(user_name, area, whatsapp_success) ==
    "Perfeito, " \o user_name \o "! Suas informacoes foram registradas com sucesso e nossa equipe especializada em "
        \o area \o " foi notificada imediatamente. "
        \o (IF whatsapp_success THEN WhatsAppSentNote ELSE WhatsAppFailedNote)
        \o " Obrigado por escolher nossos servicos juridicos!"

StrictReminder(step_id) ==
    IF step_id = 1 THEN "Preciso do seu nome completo para continuar. Por favor, digite seu nome e sobrenome:"
    ELSE IF step_id = 2 THEN "Preciso de seu telefone e/ou e-mail. Por favor, digite ao menos um contato valido:"
    ELSE IF step_id = 3 THEN "Por favor, escolha apenas: 'Penal' ou 'Saude'"
    ELSE IF step_id = 4 THEN "Preciso de mais detalhes sobre sua situacao juridica. Conte-me pelo menos uma frase sobre seu caso:"
    ELSE "Por favor, confirme digitando 'sim' ou 'nao':"

\* max_attempts of _get_fallback_response
MaxAttempts == 3

(***************************************************************************)
(* Sessions and the Session Store.                                         *)
(***************************************************************************)
SessionIds == {"s1"}

\* get_user_session found nothing
Absent == [absent |-> TRUE]

\* the session dict _get_or_create_session builds for an unknown id
\* (fallback_step 0 stands for None)
NewSession ==
    [flow_initialized |-> FALSE, fallback_step |-> 0, lead_data |-> EmptyDict,
     validation_attempts |-> EmptyDict, fallback_completed |-> FALSE,
     lead_qualified |-> FALSE, phone_submitted |-> FALSE, message_count |-> 0,
     phone_formatted |-> ""]

(***************************************************************************)
(* Outcomes of the collaborator calls of one handler invocation.           *)
(*   get    : get_user_session returns the session, returns None, raises   *)
(*   save[k]: the k-th save_user_session of the invocation stores the      *)
(*            session, returns without storing, or raises                  *)
(*   lead   : save_lead_data returns or raises                             *)
(*   notify : notify_lawyers_of_new_lead reports success, reports failure, *)
(*            or raises                                                    *)
(*   send   : send_whatsapp_message returns True, returns False, raises    *)
(***************************************************************************)
MaxSavesPerCall == 3

NoFault ==
    [get |-> "ok", save |-> [k \in 1..MaxSavesPerCall |-> "ok"], lead |-> "ok",
     notify |-> "ok", send |-> "ok"]

\* the outcomes considered: at most one failing Session Store or lead-store call
\* per invocation, and every combination of Notification and Messaging outcomes
Faults ==
    {NoFault}
        \cup {[NoFault EXCEPT !.get = o] : o \in {"none", "raise"}}
        \cup {[NoFault EXCEPT !.save[k] = o] : k \in 1..MaxSavesPerCall, o \in {"drop", "raise"}}
        \cup {[NoFault EXCEPT !.lead = "raise"]}
        \cup {[NoFault EXCEPT !.notify = n, !.send = o] :
                  n \in {"ok", "fail", "raise"}, o \in {"ok", "false", "raise"}}

\* the call context threaded through one handler invocation: the session dict in
\* memory, the stored session, the sessions written to the store in order, the
\* pending exception, whether a collaborator call has failed, and what the call
\* did so far
StartCall(stored, session_data, f) ==
    [mem |-> session_data, db |-> stored, writes |-> << >>, f |-> f, nsave |-> 0,
     exc |-> FALSE,
     failed |-> f.get # "ok", resp |-> "", path |-> "", attempt |-> 0, inits |-> 0, finals |-> 0,
     flowfinals |-> 0, leads |-> 0, notifies |-> 0, sends |-> 0]

\* await save_user_session(session_id, session_data)
SaveUserSession(c) ==
    LET k == c.nsave + 1
        o == c.f.save[k]
    IN  [c EXCEPT !.nsave = k,
                  !.db = IF o = "ok" THEN c.mem ELSE @,
                  !.writes = IF o = "ok" THEN Append(@, c.mem) ELSE @,
                  !.exc = (o = "raise"),
                  !.failed = @ \/ o # "ok"]

(***************************************************************************)
(* Control flow of one invocation. An operator below returns the context   *)
(* with exc = TRUE when the Python code raises at that point.              *)
(***************************************************************************)
\* a save followed by the return of a text: the return is reached only when
\* the save did not raise
ReturnAfterSave(c, text) == IF c.exc THEN c ELSE [c EXCEPT !.resp = text]

(***************************************************************************)
(* Finalization Handoff.                                                   *)
(***************************************************************************)
\* the except clause of _handle_lead_finalization (lines 836-841)
FinalizationFailed(c) ==
    [c EXCEPT !.exc = FALSE, !.path = "finalization_error",
              !.resp = FinalizationFallback(Get(c.mem.lead_data, "identification", ""))]

\* lines 685-693: the stored phone, else a 10-11 digit run of contact_info
ResolvePhone(lead_data) ==
    IF Get(lead_data, "phone", "") = ""
    THEN PhoneRun(Get(lead_data, "contact_info", ""))
    ELSE Get(lead_data, "phone", "")

\* faulty variant: an exception of the notification is not caught where it is raised
SaveLeadAndNotifyUnguarded(c) ==
    IF c.exc THEN FinalizationFailed(c)
    ELSE IF c.f.lead = "raise"
    THEN FinalizationFailed([c EXCEPT !.leads = @ + 1, !.failed = TRUE])
    ELSE IF c.f.notify = "raise"
    THEN FinalizationFailed([c EXCEPT !.leads = @ + 1, !.notifies = @ + 1,
                                      !.failed = TRUE])
    ELSE [c EXCEPT !.leads = @ + 1, !.notifies = @ + 1, !.sends = @ + 1,
                   !.path = "finalized",
                   !.failed = @ \/ c.f.notify # "ok" \/ c.f.send # "ok",
                   !.resp = FinalMessage(Get(c.mem.lead_data, "identification", "Cliente"),
                                         Get(c.mem.lead_data, "area_qualification",
                                             "nao informada"),
                                         c.f.send # "raise")]

\* lines 741-834, entered once the session save of line 718 was attempted
SaveLeadAndNotify(c) ==
    IF c.exc THEN FinalizationFailed(c)
    \* save_lead_data raised: lines 747-751 are skipped, and line 789 reads
    \* case_details before its assignment
    ELSE IF c.f.lead = "raise"
    THEN FinalizationFailed([c EXCEPT !.leads = @ + 1, !.failed = TRUE])
    \* the notification and the confirmation message are both attempted; what the
    \* notification does is logged only
    ELSE [c EXCEPT !.leads = @ + 1, !.notifies = @ + 1, !.sends = @ + 1,
                   !.path = "finalized",
                   !.failed = @ \/ c.f.notify # "ok" \/ c.f.send # "ok",
                   !.resp = FinalMessage(Get(c.mem.lead_data, "identification", "Cliente"),
                                         Get(c.mem.lead_data, "area_qualification",
                                             "nao informada"),
                                         c.f.send # "raise")]

\* faulty variant: the phone found is not checked before the lead is finalized
FinalizeWithPhoneUnchecked(c, phone_clean) ==
    SaveLeadAndNotify(SaveUserSession(
        [c EXCEPT !.mem = [@ EXCEPT
             !.phone_formatted = FormatBrazilianPhone(phone_clean),
             !.phone_submitted = TRUE,
             !.lead_qualified = TRUE,
             !.lead_data = Put(@, "phone", phone_clean)]]))

\* faulty variant: the lead is finalized without phone_submitted being set
FinalizeWithPhoneNotMarked(c, phone_clean) ==
    IF phone_clean = "" \/ Len(phone_clean) < 10
    THEN [c EXCEPT !.resp = PhoneRequestPrompt, !.path = "phone_request"]
    ELSE SaveLeadAndNotify(SaveUserSession(
             [c EXCEPT !.mem = [@ EXCEPT
                  !.phone_formatted = FormatBrazilianPhone(phone_clean),
                  !.lead_qualified = TRUE,
                  !.lead_data = Put(@, "phone", phone_clean)]]))

\* lines 695-719
FinalizeWithPhone(c, phone_clean) ==
    IF phone_clean = "" \/ Len(phone_clean) < 10
    THEN [c EXCEPT !.resp = PhoneRequestPrompt, !.path = "phone_request"]
    ELSE SaveLeadAndNotify(SaveUserSession(
             [c EXCEPT !.mem = [@ EXCEPT
                  !.phone_formatted = FormatBrazilianPhone(phone_clean),
                  !.phone_submitted = TRUE,
                  !.lead_qualified = TRUE,
                  !.lead_data = Put(@, "phone", phone_clean)]]))

HandleLeadFinalization(c) ==
    FinalizeWithPhone([c EXCEPT !.finals = @ + 1], ResolvePhone(c.mem.lead_data))

\* faulty variant: a number of more than 13 digits is collected
CollectPhoneOfAnyLength(c, phone_clean) ==
    IF Len(phone_clean) < 10
    THEN [c EXCEPT !.resp = InvalidPhonePrompt, !.path = "invalid_phone"]
    ELSE IF c.mem = Absent
    THEN [c EXCEPT !.resp = FinalizationFallback(""), !.path = "phone_error"]
    ELSE HandleLeadFinalization([c EXCEPT !.mem.lead_data = Put(@, "phone", phone_clean)])

\* lines 850-855, with the digits of the message
CollectPhone(c, phone_clean) ==
    IF Len(phone_clean) < 10 \/ Len(phone_clean) > 13
    THEN [c EXCEPT !.resp = InvalidPhonePrompt, !.path = "invalid_phone"]
    \* an absent session is the empty dict, whose ["lead_data"] raises KeyError,
    \* caught at line 857
    ELSE IF c.mem = Absent
    THEN [c EXCEPT !.resp = FinalizationFallback(""), !.path = "phone_error"]
    ELSE HandleLeadFinalization([c EXCEPT !.mem.lead_data = Put(@, "phone", phone_clean)])

HandlePhoneCollection(c, phone_message) == CollectPhone(c, DigitsOf(phone_message))

(***************************************************************************)
(* Flow Engine: _get_fallback_response.                                    *)
(***************************************************************************)
\* faulty variant: flow_initialized is not set
InitializeFlowWithoutFlag(c) ==
    ReturnAfterSave(SaveUserSession(
             [c EXCEPT !.inits = @ + 1, !.path = "init",
                       !.mem = [@ EXCEPT !.fallback_step = 1,
                                         !.lead_data = EmptyDict,
                                         !.fallback_completed = FALSE,
                                         !.lead_qualified = FALSE,
                                         !.validation_attempts = (1 :> 0)]]),
         InterpolateMessage(Steps[1].question, EmptyDict))

\* lines 296-317
InitializeFlow(c) ==
    ReturnAfterSave(SaveUserSession(
             [c EXCEPT !.inits = @ + 1, !.path = "init",
                       !.mem = [@ EXCEPT !.fallback_step = 1,
                                         !.lead_data = EmptyDict,
                                         !.fallback_completed = FALSE,
                                         !.lead_qualified = FALSE,
                                         !.validation_attempts = (1 :> 0),
                                         !.flow_initialized = TRUE]]),
         InterpolateMessage(Steps[1].question, EmptyDict))

\* faulty variant: the reset keeps the attempt counters
ResetToFirstStepKeepingCounters(c) ==
    ReturnAfterSave(SaveUserSession(
             [c EXCEPT !.path = "reset", !.mem.fallback_step = 1]),
         InterpolateMessage(Steps[1].question, EmptyDict))

\* lines 340-348
ResetToFirstStep(c) ==
    ReturnAfterSave(SaveUserSession(
             [c EXCEPT !.path = "reset",
                       !.mem = [@ EXCEPT !.fallback_step = 1,
                                         !.validation_attempts = (1 :> 0)]]),
         InterpolateMessage(Steps[1].question, EmptyDict))

\* faulty variant: the strict reminder starts one rejection later
ValidationMessageAfterThird(attempts, step) ==
    IF attempts > MaxAttempts THEN StrictReminder(step.id) ELSE step.error_message

\* lines 385-398
ValidationMessage(attempts, step) ==
    IF attempts >= MaxAttempts THEN StrictReminder(step.id) ELSE step.error_message

\* faulty variant: a rejected answer discards the answers collected so far
RejectAnswerDiscardingLeadData(c, step) ==
    ReturnAfterSave(SaveUserSession([c EXCEPT !.path = "rejected",
                                              !.mem.lead_data = EmptyDict]),
         ValidationMessage(c.mem.validation_attempts[step.id], step) \o "\n\n"
             \o InterpolateMessage(step.question, c.mem.lead_data))

\* lines 382-404
RejectAnswer(c, step) ==
    ReturnAfterSave(SaveUserSession([c EXCEPT !.path = "rejected"]),
         ValidationMessage(c.mem.validation_attempts[step.id], step) \o "\n\n"
             \o InterpolateMessage(step.question, c.mem.lead_data))

\* lines 419-427
StoreContact(lead_data, contact) ==
    LET with_phone == IF contact.phone # "" THEN Put(lead_data, "phone", contact.phone)
                      ELSE lead_data
    IN  IF contact.email # "" THEN Put(with_phone, "email", contact.email) ELSE with_phone

\* faulty variant: the answer is stored in a new dict instead of the session's one
StoreAnswerInNewDict(lead_data, step, normalized_answer) ==
    IF step.field = "contact_info"
    THEN StoreContact(Put(EmptyDict, step.field, normalized_answer),
                      ExtractContactInfo(normalized_answer))
    ELSE Put(EmptyDict, step.field, normalized_answer)

\* lines 412-427
StoreAnswer(lead_data, step, normalized_answer) ==
    IF step.field = "contact_info"
    THEN StoreContact(Put(lead_data, step.field, normalized_answer),
                      ExtractContactInfo(normalized_answer))
    ELSE Put(lead_data, step.field, normalized_answer)

\* lines 448-450: the finalization call that follows the completing save
FinalizeAfterSave(c) ==
    IF c.exc THEN c ELSE HandleLeadFinalization([c EXCEPT !.flowfinals = @ + 1])

\* faulty variant: the counter of the step that was passed is not reset
AdvanceOrFinalizeKeepingCounter(c, step, lead_data) ==
    IF step.id + 1 \in StepIds
    THEN ReturnAfterSave(SaveUserSession(
                  [c EXCEPT !.path = "advanced",
                            !.mem = [@ EXCEPT
                               !.lead_data = lead_data,
                               !.fallback_step = step.id + 1,
                               !.validation_attempts = Put(@, step.id + 1, 0)]]),
              InterpolateMessage(StepById(step.id + 1).question, lead_data))
    ELSE FinalizeAfterSave(SaveUserSession(
                  [c EXCEPT !.path = "completing",
                            !.mem = [@ EXCEPT !.lead_data = lead_data,
                                              !.fallback_completed = TRUE,
                                              !.lead_qualified = TRUE]]))

\* lines 429-450
AdvanceOrFinalize(c, step, lead_data) ==
    IF step.id + 1 \in StepIds
    THEN ReturnAfterSave(SaveUserSession(
                  [c EXCEPT !.path = "advanced",
                            !.mem = [@ EXCEPT
                               !.lead_data = lead_data,
                               !.fallback_step = step.id + 1,
                               !.validation_attempts =
                                   Put([@ EXCEPT ![step.id] = 0], step.id + 1, 0)]]),
              InterpolateMessage(StepById(step.id + 1).question, lead_data))
    ELSE FinalizeAfterSave(SaveUserSession(
                  [c EXCEPT !.path = "completing",
                            !.mem = [@ EXCEPT !.lead_data = lead_data,
                                              !.validation_attempts[step.id] = 0,
                                              !.fallback_completed = TRUE,
                                              !.lead_qualified = TRUE]]))

\* faulty variant: the finalization call is made after every accepted answer
AcceptAnswerAlwaysFinalizing(c, step, normalized_answer) ==
    IF step.id + 1 \in StepIds
    THEN FinalizeAfterSave(
             AdvanceOrFinalize(c, step, StoreAnswer(c.mem.lead_data, step, normalized_answer)))
    ELSE AdvanceOrFinalize(c, step, StoreAnswer(c.mem.lead_data, step, normalized_answer))

\* lines 406-450
AcceptAnswer(c, step, normalized_answer) ==
    AdvanceOrFinalize(c, step, StoreAnswer(c.mem.lead_data, step, normalized_answer))

\* faulty variant: is_flexible from the third attempt on
JudgeAnswerFlexibleFromThird(c, step, normalized_answer) ==
    IF ShouldAdvanceStepSchema(normalized_answer, step,
                               c.mem.validation_attempts[step.id] >= MaxAttempts)
    THEN AcceptAnswer(c, step, normalized_answer)
    ELSE RejectAnswer(c, step)

\* lines 370-382: is_flexible and the acceptance decision, the counter already
\* incremented
JudgeAnswer(c, step, normalized_answer) ==
    IF ShouldAdvanceStepSchema(normalized_answer, step,
                               c.mem.validation_attempts[step.id] > MaxAttempts)
    THEN AcceptAnswer(c, step, normalized_answer)
    ELSE RejectAnswer(c, step)

\* faulty variant: the incremented counter is not written to the session
CountAttemptNotStored(c, step) ==
    [c EXCEPT !.attempt = c.mem.validation_attempts[step.id] + 1]

\* lines 367-368
CountAttempt(c, step) ==
    [c EXCEPT !.mem.validation_attempts[step.id] = @ + 1,
              !.attempt = c.mem.validation_attempts[step.id] + 1]

\* faulty variant: a greeting or an empty message consumes an attempt
AnswerStepCountingEveryMessage(c, step, message) ==
    IF step.id = 1 /\ Strip(Lower(message)) \in GreetingTokens
    THEN [CountAttempt(c, step) EXCEPT !.path = "greeting",
                   !.resp = InterpolateMessage(step.question, c.mem.lead_data)]
    ELSE IF Strip(message) = ""
    THEN [CountAttempt(c, step) EXCEPT !.path = "empty",
                   !.resp = InterpolateMessage(step.question, c.mem.lead_data)]
    ELSE JudgeAnswer(CountAttempt(c, step), step,
                     ValidateAndNormalizeAnswerSchema(message, step))

\* lines 352-380
AnswerStep(c, step, message) ==
    IF step.id = 1 /\ Strip(Lower(message)) \in GreetingTokens
    THEN [c EXCEPT !.path = "greeting",
                   !.resp = InterpolateMessage(step.question, c.mem.lead_data)]
    ELSE IF Strip(message) = ""
    THEN [c EXCEPT !.path = "empty",
                   !.resp = InterpolateMessage(step.question, c.mem.lead_data)]
    ELSE JudgeAnswer(CountAttempt(c, step), step,
                     ValidateAndNormalizeAnswerSchema(message, step))

\* lines 334-337
EnsureCounter(c) ==
    IF c.mem.fallback_step \in DOMAIN c.mem.validation_attempts THEN c
    ELSE [c EXCEPT !.mem.validation_attempts = Put(@, c.mem.fallback_step, 0)]

\* faulty variant: a completed flow is not short-circuited
FallbackFlowWithoutCompletedCheck(c, message) ==
    IF ~c.mem.flow_initialized THEN InitializeFlow(c)
    ELSE IF c.mem.fallback_step \notin StepIds THEN ResetToFirstStep(EnsureCounter(c))
    ELSE AnswerStep(EnsureCounter(c), StepById(c.mem.fallback_step), message)

\* faulty variant: a message to a completed session starts the flow again
FallbackFlowRestartingCompleted(c, message) ==
    IF ~c.mem.flow_initialized \/ c.mem.fallback_completed THEN InitializeFlow(c)
    ELSE IF c.mem.fallback_step \notin StepIds THEN ResetToFirstStep(EnsureCounter(c))
    ELSE AnswerStep(EnsureCounter(c), StepById(c.mem.fallback_step), message)

\* the try block of _get_fallback_response
FallbackFlow(c, message) ==
    IF ~c.mem.flow_initialized THEN InitializeFlow(c)
    ELSE IF c.mem.fallback_completed
    THEN [c EXCEPT !.path = "completed",
                   !.resp = CompletedAck(Get(c.mem.lead_data, "identification", ""))]
    ELSE IF c.mem.fallback_step \notin StepIds THEN ResetToFirstStep(EnsureCounter(c))
    ELSE AnswerStep(EnsureCounter(c), StepById(c.mem.fallback_step), message)

\* the except clause of _get_fallback_response (lines 452-456) turns any
\* exception into a fixed prompt
FallbackExcept(c) ==
    IF c.exc THEN [c EXCEPT !.exc = FALSE, !.resp = FallbackRecoveryPrompt,
                            !.path = "fallback_error"]
    ELSE c

GetFallbackResponse(c, message) == FallbackExcept(FallbackFlow(c, message))

(***************************************************************************)
(* Entry points. A call yields the context at return and the dict          *)
(* returned.                                                               *)
(***************************************************************************)
\* the dict returned by the except clause of process_message (lines 926-936)
OrchestrationErrorResult ==
    [tag |-> "orchestration_error_debug", response |-> OrchestrationRecoveryPrompt,
     error |-> TRUE]

\* lines 926-936: the exception is consumed
ProcessMessageExcept(c) == [c |-> [c EXCEPT !.exc = FALSE], result |-> OrchestrationErrorResult]

\* lines 883-890
PhoneCollectedResult(c) ==
    [c |-> c, result |-> [tag |-> "phone_collected_debug", response |-> c.resp, error |-> FALSE]]

\* faulty variant: an exception of the save of line 903 reaches the caller
FlowResultPropagating(c) ==
    IF c.exc THEN [c |-> c, result |-> [tag |-> "raised", response |-> "", error |-> TRUE]]
    ELSE [c |-> c, result |-> [tag |-> "web_fluxo_debug", response |-> c.resp, error |-> FALSE]]

\* lines 906-924, after the save of line 903
FlowResult(c) ==
    IF c.exc THEN ProcessMessageExcept(c)
    ELSE [c |-> c, result |-> [tag |-> "web_fluxo_debug", response |-> c.resp, error |-> FALSE]]

\* lines 898-903
UpdateSession(c) == SaveUserSession([c EXCEPT !.mem.message_count = @ + 1])

\* faulty variant: the phone re-entry path is closed once the flow is completed
RouteMessageCompletedFirst(c, message) ==
    IF c.mem.lead_qualified /\ ~c.mem.phone_submitted /\ IsPhoneNumber(message)
           /\ ~c.mem.fallback_completed
    THEN PhoneCollectedResult(HandlePhoneCollection(c, message))
    ELSE FlowResult(UpdateSession(GetFallbackResponse(c, message)))

\* lines 872-924
RouteMessage(c, message) ==
    IF c.mem.lead_qualified /\ ~c.mem.phone_submitted /\ IsPhoneNumber(message)
    THEN PhoneCollectedResult(HandlePhoneCollection(c, message))
    ELSE FlowResult(UpdateSession(GetFallbackResponse(c, message)))

\* _get_or_create_session
GetOrCreateSession(stored, f) == IF stored = Absent \/ f.get = "none" THEN NewSession ELSE stored

\* process_message
ProcessMessageCall(stored, message, f) ==
    IF f.get = "raise"
    THEN ProcessMessageExcept([StartCall(stored, stored, f) EXCEPT !.path = "load_error",
                                                                  !.exc = TRUE])
    ELSE RouteMessage(StartCall(stored, GetOrCreateSession(stored, f), f), message)

\* handle_phone_number_submission: get_user_session(session_id) or {}
PhoneSubmissionCall(stored, phone_number, f) ==
    IF f.get = "raise"
    THEN [c |-> [StartCall(stored, stored, f) EXCEPT !.path = "load_error"],
          result |-> [tag |-> "error", response |-> "Erro ao processar numero de WhatsApp",
                      error |-> TRUE]]
    ELSE LET c == HandlePhoneCollection(
                      StartCall(stored, IF f.get = "none" THEN Absent ELSE stored, f),
                      phone_number)
         IN  [c |-> c, result |-> [tag |-> "success", response |-> c.resp, error |-> FALSE]]

(***************************************************************************)
(* The state machine.                                                      *)
(***************************************************************************)
\* bound on the number of handler invocations of a run
MaxOps == 7

\* bound on the number of handler invocations of a run in which a collaborator fails
MaxFaultyCalls == 1

\* the inbound message texts of the model
Messages ==
    {"", "oi", "Joao Silva", "11987654321", "joao@email.com", "(11) 99999-9999",
     "penal", "Preciso de ajuda urgente", "Fui preso ontem em Sao Paulo", "sim"}

\* the numbers submitted through the phone side-channel
Phones == {"11987654321", "12345"}

VARIABLES
    store,      \* the Session Store: session id -> stored session, or Absent
    result,     \* the dict returned by the last handler invocation
    lastOp,     \* the last handler invocation: its inputs, the stored session it
                \* started from, and what it did
    calls,      \* collaborator and handler invocations so far
    inflight,   \* the process_message invocations that run concurrently: request
                \* id -> what the request loaded and the writes it has yet to make
    landing,    \* the last handle_landing_chat_completion invocation: its inputs,
                \* what its collaborators did, what it sent and what it returned
    applied     \* a helper function applied on its own: its name, its arguments
                \* and the values it returned, one per application

vars == <<store, result, lastOp, calls, inflight, landing, applied>>

\* bound on the number of concurrent process_message invocations of a run
MaxRequests == 3

RequestIds == 1..MaxRequests

\* a request that has not arrived yet
Idle ==
    [pc |-> "idle", sid |-> "", message |-> "", loaded |-> Absent, pending |-> << >>,
     written |-> << >>, dirty |-> FALSE]

\* no handle_landing_chat_completion invocation yet
NoLanding ==
    [ncalls |-> 0, user_data |-> EmptyDict, phone_number |-> "",
     o |-> [send |-> "true", notify |-> "success"], sends |-> 0, notifies |-> 0,
     sent_to |-> "", sent_body |-> "", result |-> [flow_type |-> "none"]]

\* no helper function applied on its own
NoApplication == [fn |-> "none", args |-> << >>, returned |-> << >>]

NoCalls ==
    [ops |-> 0, faulty |-> 0, inits |-> 0, finals |-> 0, flowfinals |-> 0, leads |-> 0,
     notifies |-> 0, sends |-> 0, submissions |-> 0]

Init ==
    /\ store = [sid \in SessionIds |-> Absent]
    /\ result = [tag |-> "none", response |-> "", error |-> FALSE]
    /\ lastOp = [op |-> "none", sid |-> "", arg |-> "", f |-> NoFault, before |-> Absent,
                 path |-> "", attempt |-> 0, nsave |-> 0, inits |-> 0, finals |-> 0, flowfinals |-> 0, leads |-> 0,
                 notifies |-> 0, sends |-> 0]
    /\ calls = NoCalls
    /\ inflight = [r \in RequestIds |-> Idle]
    /\ landing = NoLanding
    /\ applied = NoApplication

\* faulty variant: the session is written under every session id
RecordUnderEveryId(op, sid, arg, f, r) ==
    /\ store' = [other \in DOMAIN store |-> r.c.db]
    /\ result' = r.result
    /\ lastOp' = [op |-> op, sid |-> sid, arg |-> arg, f |-> f, before |-> store[sid],
                  path |-> r.c.path, attempt |-> r.c.attempt, nsave |-> r.c.nsave,
                  inits |-> r.c.inits, finals |-> r.c.finals,
                  flowfinals |-> r.c.flowfinals, leads |-> r.c.leads,
                  notifies |-> r.c.notifies, sends |-> r.c.sends]
    /\ calls' = [ops |-> calls.ops + 1,
                 faulty |-> calls.faulty + (IF f = NoFault THEN 0 ELSE 1),
                 inits |-> calls.inits + r.c.inits,
                 finals |-> calls.finals + r.c.finals,
                 flowfinals |-> calls.flowfinals + r.c.flowfinals,
                 leads |-> calls.leads + r.c.leads,
                 notifies |-> calls.notifies + r.c.notifies,
                 sends |-> calls.sends + r.c.sends,
                 submissions |-> calls.submissions
                                    + (IF op = "handle_phone_number_submission" THEN 1 ELSE 0)]
    /\ UNCHANGED <<inflight, landing, applied>>

\* what one handler invocation leaves behind. Failures are drawn only for the
\* collaborator calls the invocation makes.
Record(op, sid, arg, f, r) ==
    /\ store' = [store EXCEPT ![sid] = r.c.db]
    /\ result' = r.result
    /\ lastOp' = [op |-> op, sid |-> sid, arg |-> arg, f |-> f, before |-> store[sid],
                  path |-> r.c.path, attempt |-> r.c.attempt, nsave |-> r.c.nsave,
                  inits |-> r.c.inits, finals |-> r.c.finals,
                  flowfinals |-> r.c.flowfinals, leads |-> r.c.leads,
                  notifies |-> r.c.notifies, sends |-> r.c.sends]
    /\ calls' = [ops |-> calls.ops + 1,
                 faulty |-> calls.faulty + (IF f = NoFault THEN 0 ELSE 1),
                 inits |-> calls.inits + r.c.inits,
                 finals |-> calls.finals + r.c.finals,
                 flowfinals |-> calls.flowfinals + r.c.flowfinals,
                 leads |-> calls.leads + r.c.leads,
                 notifies |-> calls.notifies + r.c.notifies,
                 sends |-> calls.sends + r.c.sends,
                 submissions |-> calls.submissions
                                    + (IF op = "handle_phone_number_submission" THEN 1 ELSE 0)]
    /\ UNCHANGED <<inflight, landing, applied>>

ProcessMessage(sid, message, f) ==
    /\ calls.ops < MaxOps
    /\ f = NoFault \/ calls.faulty < MaxFaultyCalls
    /\ \E r \in {ProcessMessageCall(store[sid], message, f)} :
          /\ f = NoFault \/ r.c.failed
          /\ Record("process_message", sid, message, f, r)

HandlePhoneNumberSubmission(sid, phone_number, f) ==
    /\ calls.ops < MaxOps
    /\ f = NoFault \/ calls.faulty < MaxFaultyCalls
    /\ \E r \in {PhoneSubmissionCall(store[sid], phone_number, f)} :
          /\ f = NoFault \/ r.c.failed
          /\ Record("handle_phone_number_submission", sid, phone_number, f, r)

Next ==
    \/ \E sid \in SessionIds, message \in Messages : ProcessMessage(sid, message, NoFault)
    \/ \E sid \in SessionIds, phone_number \in Phones :
          HandlePhoneNumberSubmission(sid, phone_number, NoFault)

\* the engine with collaborators that do not fail
Spec == Init /\ [][Next]_vars

\* the message texts used when collaborators may fail
FaultMessages ==
    {"Joao Silva", "11987654321", "penal", "Fui preso ontem em Sao Paulo", "sim"}

\* the number submitted through the phone side-channel when collaborators may fail
FaultPhones == {"11987654321"}

NextWithFaults ==
    \/ \E sid \in SessionIds, message \in FaultMessages, f \in Faults :
          ProcessMessage(sid, message, f)
    \/ \E sid \in SessionIds, phone_number \in FaultPhones, f \in Faults :
          HandlePhoneNumberSubmission(sid, phone_number, f)

\* the engine with collaborators that may fail
SpecWithFaults == Init /\ [][NextWithFaults]_vars

\* answers of two to four characters, sent to the name step
ShortAnswers == {"Jo", "Al", "ok", "12", "Ana", "Joao"}

NextShortAnswers ==
    \E sid \in SessionIds, message \in ShortAnswers : ProcessMessage(sid, message, NoFault)

\* the engine fed with short answers only
SpecShortAnswers == Init /\ [][NextShortAnswers]_vars

\* bound on the number of handler invocations of a run over two sessions
MaxTwoSessionOps == 5

TwoSessionIds == {"s1", "s2"}

TwoSessionMessages == {"Joao Silva", "11987654321"}

InitTwoSessions ==
    /\ store = [sid \in TwoSessionIds |-> Absent]
    /\ result = [tag |-> "none", response |-> "", error |-> FALSE]
    /\ lastOp = [op |-> "none", sid |-> "", arg |-> "", f |-> NoFault, before |-> Absent,
                 path |-> "", attempt |-> 0, nsave |-> 0, inits |-> 0, finals |-> 0,
                 flowfinals |-> 0, leads |-> 0, notifies |-> 0, sends |-> 0]
    /\ calls = NoCalls
    /\ inflight = [r \in RequestIds |-> Idle]
    /\ landing = NoLanding
    /\ applied = NoApplication

NextTwoSessions ==
    /\ calls.ops < MaxTwoSessionOps
    /\ \/ \E sid \in TwoSessionIds, message \in TwoSessionMessages :
              ProcessMessage(sid, message, NoFault)
       \/ \E sid \in TwoSessionIds, phone_number \in FaultPhones :
              HandlePhoneNumberSubmission(sid, phone_number, NoFault)

\* two sessions served by the one orchestrator, their messages interleaved
SpecTwoSessions == InitTwoSessions /\ [][NextTwoSessions]_vars

(***************************************************************************)
(* Concurrent invocations of process_message. The coroutine gives up       *)
(* control at its awaits only: at get_user_session and at each              *)
(* save_user_session. What it computes in between depends on the session    *)
(* it loaded alone.                                                         *)
(***************************************************************************)
ConcurrentMessages == {"Joao Silva", "ok"}

\* the store holds a write of another running request that is not its last one
HoldsIntermediate(r, sid) ==
    \E q \in RequestIds \ {r} :
        /\ inflight[q].pc = "running"
        /\ inflight[q].sid = sid
        /\ inflight[q].written # << >>
        /\ inflight[q].pending # << >>
        /\ store[sid] = inflight[q].written[Len(inflight[q].written)]
        /\ store[sid] # inflight[q].pending[Len(inflight[q].pending)]

\* line 870: the request loads the stored session
Receive(r, sid, message) ==
    /\ inflight[r].pc = "idle"
    \* request ids are given in the order of arrival
    /\ \A p \in RequestIds : p < r => inflight[p].pc # "idle"
    /\ inflight' = [inflight EXCEPT ![r] =
           [pc |-> "running", sid |-> sid, message |-> message, loaded |-> store[sid],
            pending |-> ProcessMessageCall(store[sid], message, NoFault).c.writes,
            written |-> << >>, dirty |-> HoldsIntermediate(r, sid)]]
    /\ calls' = [calls EXCEPT !.ops = @ + 1]
    /\ UNCHANGED <<store, result, lastOp, landing, applied>>

\* faulty variant: the update is recomputed from the stored session and written in
\* one transaction
PersistTransactional(r) ==
    /\ inflight[r].pc = "running"
    /\ inflight[r].pending # << >>
    /\ \E fresh \in {ProcessMessageCall(store[inflight[r].sid], inflight[r].message,
                                        NoFault).c.writes} :
          /\ store' = [store EXCEPT ![inflight[r].sid] = fresh[Len(fresh)]]
          /\ inflight' = [inflight EXCEPT ![r].pending = << >>,
                                          ![r].written = Append(@, fresh[Len(fresh)])]
    /\ UNCHANGED <<result, lastOp, calls, landing, applied>>

\* the next save_user_session of the request: the whole session dict replaces the
\* stored one
Persist(r) ==
    /\ inflight[r].pc = "running"
    /\ inflight[r].pending # << >>
    /\ store' = [store EXCEPT ![inflight[r].sid] = Head(inflight[r].pending)]
    /\ inflight' = [inflight EXCEPT ![r].pending = Tail(@),
                                    ![r].written = Append(@, Head(inflight[r].pending))]
    /\ UNCHANGED <<result, lastOp, calls, landing, applied>>

\* lines 905-924: the request returns
Return(r) ==
    /\ inflight[r].pc = "running"
    /\ inflight[r].pending = << >>
    /\ inflight' = [inflight EXCEPT ![r].pc = "done"]
    /\ UNCHANGED <<store, result, lastOp, calls, landing, applied>>

NextConcurrent ==
    \E r \in RequestIds :
        \/ \E sid \in SessionIds, message \in ConcurrentMessages : Receive(r, sid, message)
        \/ Persist(r)
        \/ Return(r)

\* process_message invocations for one session with no serialization
SpecConcurrent == Init /\ [][NextConcurrent]_vars

(***************************************************************************)
(* WhatsAppFlowManager, Flow 1: handle_landing_chat_completion.            *)
(***************************************************************************)
WhatsAppSuffix == "@s.whatsapp.net"

\* _format_phone_for_whatsapp
FormatPhoneForWhatsapp(phone) ==
    LET digits == DigitsOf(phone)
        clean_phone == IF StartsWith(digits, "55") THEN digits ELSE "55" \o digits
    IN  IF Len(clean_phone) = 12 /\ Ch(clean_phone, 5) \in {"6", "7", "8", "9"}
        THEN "55" \o SubSeq(clean_phone, 3, 4) \o "9" \o Drop(clean_phone, 4)
             \o WhatsAppSuffix
        ELSE clean_phone \o WhatsAppSuffix

\* the situation is cut after this many characters in the confirmation message
SituationPreview == 100

\* lines 53-65 (the emoji are left out, the bullets are dashes)
ConfirmationMessage(user_name, area, situation, email) ==
    "Olá " \o user_name \o "!\n\n"
    \o "Recebemos suas informações do nosso site e nossa equipe especializada em "
    \o area \o " foi notificada.\n\n"
    \o "Resumo:\n"
    \o "- Nome: " \o user_name \o "\n"
    \o "- Área: " \o area \o "\n"
    \o "- Situação: "
    \o (IF Len(situation) > SituationPreview
        THEN Take(situation, SituationPreview) \o "..."
        ELSE situation) \o "\n"
    \o "- Email: " \o email \o "\n\n"
    \o "Um advogado experiente entrará em contato em breve.\n\n"
    \o "Obrigado por escolher nossos serviços!"

\* lines 103-110: the dict returned when anything in the try block raised
LandingError(raised_by) ==
    [success |-> FALSE, flow_type |-> "landing_chat_completion", error |-> raised_by,
     conversation_continues |-> FALSE]

\* lines 93-101
LandingSuccess(user_name, phone_number, message_sent, lawyers_notified) ==
    [success |-> TRUE, flow_type |-> "landing_chat_completion",
     message_sent |-> message_sent, lawyers_notified |-> lawyers_notified,
     conversation_continues |-> FALSE, user_name |-> user_name,
     phone_number |-> phone_number]

\* what the collaborators of Flow 1 do:
\*   send   : send_whatsapp_message returns True, returns False, or raises
\*   notify : create_lead_with_assignment_links returns {"success": True}, returns
\*            {"success": False}, returns a dict without "success", or raises
LandingOutcomes ==
    [send : {"true", "false", "raise"}, notify : {"success", "failure", "empty", "raise"}]

\* faulty variant: a confirmation that could not be sent ends the flow
LandingChatCompletionStoppingOnFailedSend(user_data, phone_number, o) ==
    LET user_name == Get(user_data, "name", "Cliente")
        to == FormatPhoneForWhatsapp(phone_number)
        body == ConfirmationMessage(user_name, Get(user_data, "area", "não informada"),
                                    Get(user_data, "situation", "não detalhada"),
                                    Get(user_data, "email", "não informado"))
    IN  IF o.send # "true"
        THEN [sends |-> 1, notifies |-> 0, sent_to |-> to, sent_body |-> body,
              result |-> LandingError("send_whatsapp_message")]
        ELSE IF o.notify = "raise"
        THEN [sends |-> 1, notifies |-> 1, sent_to |-> to, sent_body |-> body,
              result |-> LandingError("create_lead_with_assignment_links")]
        ELSE [sends |-> 1, notifies |-> 1, sent_to |-> to, sent_body |-> body,
              result |-> LandingSuccess(user_name, phone_number, o.send = "true",
                                        o.notify = "success")]

\* handle_landing_chat_completion
LandingChatCompletion(user_data, phone_number, o) ==
    LET user_name == Get(user_data, "name", "Cliente")
        to == FormatPhoneForWhatsapp(phone_number)
        body == ConfirmationMessage(user_name, Get(user_data, "area", "não informada"),
                                    Get(user_data, "situation", "não detalhada"),
                                    Get(user_data, "email", "não informado"))
    IN  IF o.send = "raise"
        THEN [sends |-> 1, notifies |-> 0, sent_to |-> to, sent_body |-> body,
              result |-> LandingError("send_whatsapp_message")]
        ELSE IF o.notify = "raise"
        THEN [sends |-> 1, notifies |-> 1, sent_to |-> to, sent_body |-> body,
              result |-> LandingError("create_lead_with_assignment_links")]
        ELSE [sends |-> 1, notifies |-> 1, sent_to |-> to, sent_body |-> body,
              result |-> LandingSuccess(user_name, phone_number, o.send = "true",
                                        o.notify = "success")]

\* bound on the number of handle_landing_chat_completion invocations of a run
MaxLandingCalls == 2

LongSituation ==
    "Fui demitido sem justa causa depois de doze anos de trabalho na mesma empresa e "
    \o "nao recebi as verbas rescisorias nem o fundo de garantia"

LandingUserData ==
    {EmptyDict,
     [k \in {"name"} |-> "Joao Silva"],
     [k \in {"name", "area", "situation", "email"} |->
         CASE k = "name" -> "Maria Souza"
           [] k = "area" -> "Direito Penal"
           [] k = "situation" -> LongSituation
           [] OTHER -> "maria@email.com"]}

LandingPhones == {"1187654321", "11987654321", "(11) 3333-4444", "5511987654321"}

HandleLandingChatCompletion(user_data, phone_number, o) ==
    /\ landing.ncalls < MaxLandingCalls
    /\ \E r \in {LandingChatCompletion(user_data, phone_number, o)} :
          landing' = [ncalls |-> landing.ncalls + 1, user_data |-> user_data,
                      phone_number |-> phone_number, o |-> o, sends |-> r.sends,
                      notifies |-> r.notifies, sent_to |-> r.sent_to,
                      sent_body |-> r.sent_body, result |-> r.result]
    /\ UNCHANGED <<store, result, lastOp, calls, inflight, applied>>

NextLanding ==
    \E user_data \in LandingUserData, phone_number \in LandingPhones, o \in LandingOutcomes :
        HandleLandingChatCompletion(user_data, phone_number, o)

\* Flow 1 of the WhatsApp flow manager
SpecLanding == Init /\ [][NextLanding]_vars

(***************************************************************************)
(* The flow engine answered at every step. A run starts from a session the *)
(* engine itself has produced: the stored session a sequence of messages   *)
(* leaves behind, on each step with no, two or three rejected answers.     *)
(***************************************************************************)
\* the stored session after process_message has handled msgs in order
RECURSIVE StoredAfter(_)
StoredAfter(msgs) ==
    IF msgs = << >> THEN Absent
    ELSE ProcessMessageCall(StoredAfter(SubSeq(msgs, 1, Len(msgs) - 1)), msgs[Len(msgs)],
                            NoFault).c.db

\* the initialising message followed by one accepted answer per step
AcceptedAnswers ==
    <<"oi", "Joao Silva", "11987654321 joao@email.com", "penal",
      "Fui preso ontem em Sao Paulo">>

\* the message sequences a run starts after: step k reached, then 0, 2 or 3
\* answers to it that every step rejects
AnswerHistories ==
    {SubSeq(AcceptedAnswers, 1, k) \o [i \in 1..n |-> "x"] :
        k \in 1..Len(AcceptedAnswers), n \in {0, 2, 3}}

\* bound on the number of answers of a run
MaxAnswers == 1

\* the answers given
Answers ==
    {"", "   ", " Oi ", "x", "Jo", "Ana", "123", "12345", "a b c", "teste",
     "joão  silva", "MARIA", "telefone fixo", "celular", "a@b.co", "joao@email.com",
     "5511987654321", "(11) 99999-9999", "meu numero 1198765432 ok", "health",
     "Medicamento caro", "familia", "certo", "não", "confirmado", "k",
     "Fui preso ontem em Sao Paulo", "preso ontem cedo"}

InitAnswers ==
    /\ store \in {[sid \in SessionIds |-> StoredAfter(h)] : h \in AnswerHistories}
    /\ result = [tag |-> "none", response |-> "", error |-> FALSE]
    /\ lastOp = [op |-> "none", sid |-> "", arg |-> "", f |-> NoFault, before |-> Absent,
                 path |-> "", attempt |-> 0, nsave |-> 0, inits |-> 0, finals |-> 0,
                 flowfinals |-> 0, leads |-> 0, notifies |-> 0, sends |-> 0]
    /\ calls = NoCalls
    /\ inflight = [r \in RequestIds |-> Idle]
    /\ landing = NoLanding
    /\ applied = NoApplication

NextAnswers ==
    /\ calls.ops < MaxAnswers
    /\ \E sid \in SessionIds, message \in Answers : ProcessMessage(sid, message, NoFault)

\* the engine given one more answer on any step, in strict and in flexible mode
SpecAnswers == InitAnswers /\ [][NextAnswers]_vars

(***************************************************************************)
(* Stored sessions whose step is not a step of the flow: the Session Store *)
(* holds what an earlier flow definition, or another writer, left in it.   *)
(***************************************************************************)
\* step values that match no step of the flow (0 stands for None)
ForeignSteps == {0, 6, 9}

InitCorrupted ==
    /\ store \in {[sid \in SessionIds |-> [StoredAfter(h) EXCEPT !.fallback_step = k]] :
                     h \in AnswerHistories, k \in ForeignSteps}
    /\ result = [tag |-> "none", response |-> "", error |-> FALSE]
    /\ lastOp = [op |-> "none", sid |-> "", arg |-> "", f |-> NoFault, before |-> Absent,
                 path |-> "", attempt |-> 0, nsave |-> 0, inits |-> 0, finals |-> 0,
                 flowfinals |-> 0, leads |-> 0, notifies |-> 0, sends |-> 0]
    /\ calls = NoCalls
    /\ inflight = [r \in RequestIds |-> Idle]
    /\ landing = NoLanding
    /\ applied = NoApplication

\* the engine given a message for a session with a foreign step
SpecCorrupted == InitCorrupted /\ [][NextAnswers]_vars

(***************************************************************************)
(* The phone side-channel on its own: one submission to a session that is  *)
(* unknown, or at some step of the flow, or completed.                     *)
(***************************************************************************)
\* bound on the number of submissions of a run
MaxSubmissions == 1

\* the numbers submitted: no digits, fewer than 10, 10 to 13, more than 13
SubmittedPhones ==
    {"", "abc", "12345", "123456789", "1198765432", "11987654321", "(11) 98765-4321",
     "+55 11 98765-4321", "5511987654321", "55119876543210", "551198765432100"}

InitSubmissions ==
    /\ store \in {[sid \in SessionIds |-> StoredAfter(h)] :
                     h \in AnswerHistories \cup {<< >>, AcceptedAnswers \o <<"sim">>}}
    /\ result = [tag |-> "none", response |-> "", error |-> FALSE]
    /\ lastOp = [op |-> "none", sid |-> "", arg |-> "", f |-> NoFault, before |-> Absent,
                 path |-> "", attempt |-> 0, nsave |-> 0, inits |-> 0, finals |-> 0,
                 flowfinals |-> 0, leads |-> 0, notifies |-> 0, sends |-> 0]
    /\ calls = NoCalls
    /\ inflight = [r \in RequestIds |-> Idle]
    /\ landing = NoLanding
    /\ applied = NoApplication

NextSubmissions ==
    /\ calls.ops < MaxSubmissions
    /\ \E sid \in SessionIds, phone_number \in SubmittedPhones :
          HandlePhoneNumberSubmission(sid, phone_number, NoFault)

SpecSubmissions == InitSubmissions /\ [][NextSubmissions]_vars

(***************************************************************************)
(* The helper functions on their own: _format_brazilian_phone and          *)
(* _interpolate_message applied to an argument, and applied again to what  *)
(* they returned.                                                          *)
(***************************************************************************)
\* bound on the number of times a helper function is applied to its own result
MaxApplications == 2

\* the arguments of _format_brazilian_phone: no digits, 8, 9, 10 and 11 digits with
\* and without the country code, with and without punctuation, other lengths
PhoneInputs ==
    {"", "abc", "55", "5555", "123", "98765432", "33334444", "987654321", "1176543210",
     "1133334444", "1161234567", "11987654321", "5598765432", "551176543210",
     "551133334444", "5511987654321", "119876543210", "55119876543210",
     "(11) 98765-4321", "+55 (11) 7654-3210", "11 3333-4444"}

\* the message histories whose lead_data is interpolated: the flow at each step, a
\* contact without a phone, a case description of more than 100 characters, and
\* answers that hold the text of a placeholder
InterpolatedHistories ==
    {SubSeq(AcceptedAnswers, 1, k) : k \in 0..Len(AcceptedAnswers)}
        \cup {<<"oi", "Joao Silva", "joao@email.com", "saude">>,
              <<"oi", "Joao Silva", "joao@email.com", "penal",
                "Fui preso ontem em Sao Paulo e a audiencia de custodia foi marcada para amanha cedo no forum criminal da Barra Funda">>,
              <<"oi", "Joao {user_name}">>,
              <<"oi", "Joao Silva", "{user_name} 11987654321">>}

\* the lead_data the flow produces; {} is what the first question is interpolated with
LeadDatas == {EmptyDict} \cup {StoredAfter(h).lead_data : h \in InterpolatedHistories \ {<< >>}}

\* the templates: the questions of the flow, the empty template, and templates
\* with every placeholder, with a repeated placeholder and with none
Templates ==
    {Steps[i].question : i \in 1..Len(Steps)}
        \cup {"",
              "{user_name}; {area}; {contact_info}; {case_details}; {phone}; {case_summary}",
              "Resumo: {case_summary}",
              "{user_name}, {user_name}!",
              "{nome} sem marcador"}

InitApplied ==
    /\ store = [sid \in SessionIds |-> Absent]
    /\ result = [tag |-> "none", response |-> "", error |-> FALSE]
    /\ lastOp = [op |-> "none", sid |-> "", arg |-> "", f |-> NoFault, before |-> Absent,
                 path |-> "", attempt |-> 0, nsave |-> 0, inits |-> 0, finals |-> 0,
                 flowfinals |-> 0, leads |-> 0, notifies |-> 0, sends |-> 0]
    /\ calls = NoCalls
    /\ inflight = [r \in RequestIds |-> Idle]
    /\ landing = NoLanding
    /\ applied \in {[fn |-> "_format_brazilian_phone", args |-> <<phone>>, returned |-> << >>] :
                       phone \in PhoneInputs}
                   \cup {[fn |-> "_interpolate_message", args |-> <<message, lead_data>>,
                          returned |-> << >>] : message \in Templates, lead_data \in LeadDatas}

\* _format_brazilian_phone applied to the argument, then to its own result
ApplyFormatBrazilianPhone ==
    /\ applied.fn = "_format_brazilian_phone"
    /\ Len(applied.returned) < MaxApplications
    /\ applied' = [applied EXCEPT !.returned =
                      Append(@, FormatBrazilianPhone(
                                    IF @ = << >> THEN applied.args[1] ELSE @[Len(@)]))]
    /\ UNCHANGED <<store, result, lastOp, calls, inflight, landing>>

\* _interpolate_message applied to the template, then to its own result, with the
\* same lead_data
ApplyInterpolateMessage ==
    /\ applied.fn = "_interpolate_message"
    /\ Len(applied.returned) < MaxApplications
    /\ applied' = [applied EXCEPT !.returned =
                      Append(@, InterpolateMessage(
                                    IF @ = << >> THEN applied.args[1] ELSE @[Len(@)],
                                    applied.args[2]))]
    /\ UNCHANGED <<store, result, lastOp, calls, inflight, landing>>

NextApplied == ApplyFormatBrazilianPhone \/ ApplyInterpolateMessage

SpecApplied == InitApplied /\ [][NextApplied]_vars

(***************************************************************************)
(* Properties. Each is stated on the state a handler invocation leaves:    *)
(* lastOp.before is the stored session it started from, store[lastOp.sid]  *)
(* the stored session it left, result the dict it returned.                *)
(***************************************************************************)
Before == lastOp.before

After == store[lastOp.sid]

LastIsProcessMessage == lastOp.op = "process_message"

\* the message is taken by the phone re-entry path of process_message
PhoneReEntry ==
    /\ Before # Absent
    /\ Before.lead_qualified
    /\ ~Before.phone_submitted
    /\ IsPhoneNumber(lastOp.arg)

\* the message is an answer to the current step of an initialised, unfinished flow
AnswersStep ==
    /\ LastIsProcessMessage
    /\ Before # Absent
    /\ Before.flow_initialized
    /\ ~Before.fallback_completed
    /\ ~PhoneReEntry
    /\ Before.fallback_step \in StepIds

\* the answered step was passed
Passed == After.fallback_completed \/ After.fallback_step = Before.fallback_step + 1

\* the answer reaches the validator: it is neither empty nor a step-1 greeting
Validated ==
    /\ AnswersStep
    /\ Strip(lastOp.arg) # ""
    /\ ~(Before.fallback_step = 1 /\ Strip(Lower(lastOp.arg)) \in GreetingTokens)

(***************************************************************************)
(* C1                                                                      *)
(***************************************************************************)
\* C1 as stated: once a session has flow_completed = true, every further
\* process_message returns the static acknowledgement with the stored name and
\* leaves lead_data unchanged.
C1_Original ==
    (LastIsProcessMessage /\ Before # Absent /\ Before.fallback_completed)
        => /\ result.response = CompletedAck(Get(Before.lead_data, "identification", ""))
           /\ After.lead_data = Before.lead_data

\* C1 as amended: once a session has flow_completed = true, every further
\* process_message that is not taken by the phone re-entry path (lead qualified,
\* phone not yet submitted, message with 10 to 13 digits) returns the static
\* acknowledgement with the stored name and leaves lead_data unchanged.
C1_Amended ==
    (LastIsProcessMessage /\ Before # Absent /\ Before.fallback_completed /\ ~PhoneReEntry)
        => /\ result.response = CompletedAck(Get(Before.lead_data, "identification", ""))
           /\ After.lead_data = Before.lead_data

C1_Witness ==
    /\ LastIsProcessMessage
    /\ Before # Absent
    /\ Before.fallback_completed
    /\ Before.lead_qualified
    /\ ~Before.phone_submitted
    /\ ~IsPhoneNumber(lastOp.arg)
    /\ result.response = CompletedAck("Joao Silva")

(***************************************************************************)
(* C2                                                                      *)
(***************************************************************************)
\* the last handler invocation is a phone collection with a number of 10 to 13 digits
PhoneCollected ==
    /\ lastOp.op = "handle_phone_number_submission" \/ (LastIsProcessMessage /\ PhoneReEntry)
    /\ Before # Absent
    /\ Len(DigitsOf(lastOp.arg)) >= 10
    /\ Len(DigitsOf(lastOp.arg)) <= 13

\* the last handler invocation accepted the answer to the last step
LastStepAccepted ==
    /\ AnswersStep
    /\ Before.fallback_step = Len(Steps)
    /\ After.fallback_completed

\* C2 as stated: over any sequence of process_message and
\* handle_phone_number_submission calls on one session, _handle_lead_finalization
\* is invoked exactly once, and only on the transition in which the last step's
\* answer is accepted.
C2_Original ==
    /\ calls.finals <= 1
    /\ lastOp.finals > 0 => LastStepAccepted

\* C2 as amended: the flow engine invokes _handle_lead_finalization exactly once
\* per session, on the transition in which the last step's answer is accepted;
\* apart from that, exactly the phone collections with a number of 10 to 13
\* digits invoke it, once each.
C2_Amended ==
    /\ calls.flowfinals <= 1
    /\ \A sid \in SessionIds :
          (store[sid] # Absent /\ store[sid].fallback_completed) <=> calls.flowfinals = 1
    /\ lastOp.flowfinals = 1 <=> (lastOp.op # "none" /\ LastStepAccepted)
    /\ lastOp.finals - lastOp.flowfinals = 1 <=> (lastOp.op # "none" /\ PhoneCollected)
    /\ lastOp.finals - lastOp.flowfinals \in {0, 1}

C2_Witness ==
    /\ calls.flowfinals = 1
    /\ calls.finals >= 2
    /\ lastOp.flowfinals = 1

(***************************************************************************)
(* C3                                                                      *)
(***************************************************************************)
HasDigit(s) == DigitsOf(s) # ""

\* the last invocation is the k-th answer of a run made of the initialising
\* message and k answers, the k - 1 before it all accepted
ScenarioAnswer(k) ==
    /\ calls.ops = k + 1
    /\ calls.submissions = 0
    /\ AnswersStep
    /\ Before.fallback_step = k

\* the scenario ended as described
ScenarioCompleted ==
    /\ After.fallback_completed
    /\ After.lead_qualified
    /\ result.response # ""
    /\ calls.notifies = 1
    /\ calls.sends = 1

\* C3 as stated: five sequential answers (any valid name, any contact text
\* containing digits, "penal", any case description of at least 20 characters,
\* "sim") drive current_step from 1 to completion, yield a non-empty finalization
\* message, set lead_qualified and invoke Notification and Messaging once each.
C3_Original ==
    /\ (ScenarioAnswer(2) /\ HasDigit(lastOp.arg)) => After.fallback_step = 3
    /\ (ScenarioAnswer(3) /\ HasDigit(Before.lead_data["contact_info"])
            /\ lastOp.arg = "penal") => After.fallback_step = 4
    /\ (ScenarioAnswer(4) /\ HasDigit(Before.lead_data["contact_info"])
            /\ Before.lead_data["area_qualification"] = "Direito Penal"
            /\ Len(lastOp.arg) >= 20) => After.fallback_step = 5
    /\ (ScenarioAnswer(5) /\ HasDigit(Before.lead_data["contact_info"])
            /\ Before.lead_data["area_qualification"] = "Direito Penal"
            /\ Len(Before.lead_data["case_details"]) >= 20
            /\ lastOp.arg = "sim") => ScenarioCompleted

\* C3 as amended: five sequential answers to an initialised session at step 1
\* (any name the validator accepts, any contact text containing a run of at least
\* 10 digits, "penal", any case description of at least 20 characters and at least
\* 5 words, "sim") drive current_step from 1 to completion, yield the finalization
\* confirmation, set lead_qualified and invoke Notification and Messaging once
\* each.
C3_Amended ==
    /\ (ScenarioAnswer(2) /\ PhoneRun(lastOp.arg) # "") => After.fallback_step = 3
    /\ (ScenarioAnswer(3) /\ PhoneRun(Before.lead_data["contact_info"]) # ""
            /\ lastOp.arg = "penal") => After.fallback_step = 4
    /\ (ScenarioAnswer(4) /\ PhoneRun(Before.lead_data["contact_info"]) # ""
            /\ Before.lead_data["area_qualification"] = "Direito Penal"
            /\ Len(lastOp.arg) >= 20 /\ Len(Split(lastOp.arg)) >= 5)
          => After.fallback_step = 5
    /\ (ScenarioAnswer(5) /\ PhoneRun(Before.lead_data["contact_info"]) # ""
            /\ Before.lead_data["area_qualification"] = "Direito Penal"
            /\ Len(Before.lead_data["case_details"]) >= 20
            /\ Len(Split(Before.lead_data["case_details"])) >= 5
            /\ lastOp.arg = "sim")
          => /\ ScenarioCompleted
             /\ result.response
                  = FinalMessage(After.lead_data["identification"], "Direito Penal", TRUE)

C3_Witness ==
    /\ ScenarioAnswer(5)
    /\ PhoneRun(Before.lead_data["contact_info"]) # ""
    /\ Before.lead_data["area_qualification"] = "Direito Penal"
    /\ Len(Split(Before.lead_data["case_details"])) >= 5
    /\ lastOp.arg = "sim"
    /\ ScenarioCompleted

(***************************************************************************)
(* C4                                                                      *)
(***************************************************************************)
\* C4: validation_attempts[s] is 0 right after step s is entered and right after it
\* is passed, and it grows by exactly 1 for each non-empty, non-greeting answer to
\* s that is rejected.
C4_AttemptCounter ==
    /\ (LastIsProcessMessage /\ (Before = Absent \/ ~Before.flow_initialized))
          => After.fallback_step = 1 /\ After.validation_attempts[1] = 0
    /\ (AnswersStep /\ Passed)
          => /\ After.validation_attempts[Before.fallback_step] = 0
             /\ ~After.fallback_completed
                   => After.validation_attempts[After.fallback_step] = 0
    /\ (AnswersStep /\ ~Passed /\ Strip(lastOp.arg) # ""
            /\ Strip(Lower(lastOp.arg)) \notin GreetingTokens)
          => After.validation_attempts[Before.fallback_step]
                 = Before.validation_attempts[Before.fallback_step] + 1

C4_Witness ==
    /\ AnswersStep
    /\ ~Passed
    /\ Strip(lastOp.arg) # ""
    /\ Strip(Lower(lastOp.arg)) \notin GreetingTokens
    /\ Before.validation_attempts[Before.fallback_step] = 2
    /\ After.validation_attempts[Before.fallback_step] = 3

(***************************************************************************)
(* C5                                                                      *)
(***************************************************************************)
\* the validator's verdict on the last answer in the given mode
Verdict(is_flexible) ==
    ShouldAdvanceStepSchema(
        ValidateAndNormalizeAnswerSchema(lastOp.arg, StepById(Before.fallback_step)),
        StepById(Before.fallback_step), is_flexible)

\* C5: an answer is validated in flexible mode if and only if the step's attempt
\* counter, incremented for that answer, is greater than 3: the first three
\* submissions to a step are judged strictly, the fourth one after three rejections
\* under the relaxed thresholds.
C5_FlexibleMode ==
    Validated =>
        /\ lastOp.attempt = Before.validation_attempts[Before.fallback_step] + 1
        /\ Passed <=> Verdict(Before.validation_attempts[Before.fallback_step] + 1 > 3)

C5_Witness ==
    /\ Validated
    /\ Before.validation_attempts[Before.fallback_step] = 3
    /\ Passed
    /\ ~Verdict(FALSE)

(***************************************************************************)
(* C6                                                                      *)
(***************************************************************************)
\* C6: the first message processed for a session whose flow_initialized is false
\* sets current_step = 1, lead_data = {}, validation_attempts = {1: 0} and
\* flow_initialized = true and returns the first step's question without validating
\* or storing the message text; this happens at most once per session.
C6_Initialization ==
    /\ (LastIsProcessMessage /\ (Before = Absent \/ ~Before.flow_initialized))
          => /\ After.fallback_step = 1
             /\ After.lead_data = EmptyDict
             /\ After.validation_attempts = (1 :> 0)
             /\ After.flow_initialized
             /\ result.response = Steps[1].question
             /\ lastOp.attempt = 0
             /\ lastOp.inits = 1
    /\ (LastIsProcessMessage /\ Before # Absent /\ Before.flow_initialized)
          => lastOp.inits = 0
    /\ calls.inits <= 1

C6_Witness ==
    /\ LastIsProcessMessage
    /\ Before = Absent
    /\ lastOp.arg = "Joao Silva"
    /\ After.flow_initialized
    /\ After.lead_data = EmptyDict
    /\ calls.inits = 1

(***************************************************************************)
(* C7                                                                      *)
(***************************************************************************)
RequiredFields == {Steps[i].field : i \in 1..Len(Steps)}

\* C7: in every reachable session state lead_qualified = true implies that
\* lead_data has an entry for the field of every required step.
C7_QualifiedHasAllFields ==
    \A sid \in SessionIds :
        (store[sid] # Absent /\ store[sid].lead_qualified)
            => RequiredFields \subseteq DOMAIN store[sid].lead_data

(***************************************************************************)
(* C8                                                                      *)
(***************************************************************************)
\* the same invocation with every collaborator call succeeding
CleanRun == ProcessMessageCall(Before, lastOp.arg, NoFault)

\* a save_user_session call of the invocation failed
SaveFailed == \E k \in 1..lastOp.nsave : lastOp.f.save[k] # "ok"

\* the k-th save_user_session call of the invocation raised
SaveRaised(k) == k \in 1..lastOp.nsave /\ lastOp.f.save[k] = "raise"

LoadRaised == lastOp.f.get = "raise"

\* the save that follows the engine's response (line 903) is the last save of the
\* invocation when nothing fails
FinalSaveRaised == ~PhoneReEntry /\ SaveRaised(CleanRun.c.nsave)

\* the save of line 718 or save_lead_data raised
FinalizationRaised ==
    /\ CleanRun.c.path = "finalized"
    /\ \/ lastOp.f.lead = "raise"
       \/ SaveRaised(IF PhoneReEntry THEN CleanRun.c.nsave ELSE CleanRun.c.nsave - 1)

\* a save of the flow engine itself raised
EngineSaveRaised ==
    /\ ~PhoneReEntry
    /\ \E k \in 1..(CleanRun.c.nsave - (IF CleanRun.c.path = "finalized" THEN 2 ELSE 1)) :
          SaveRaised(k)

ReturnedTags == {"phone_collected_debug", "web_fluxo_debug", "orchestration_error_debug"}

DegradedFinalization ==
    /\ lastOp.op # "none"
    /\ lastOp.finals = 1
    /\ lastOp.f.notify # "ok" \/ lastOp.f.send # "ok"
    /\ Len(ResolvePhone(After.lead_data)) >= 10

\* C9: during finalization with a usable phone, a failure of Notification or of
\* Messaging does not stop the other call from being attempted and does not change
\* the kind of result: the success confirmation is returned, at most with a
\* degraded-delivery note, and nothing is raised.
C9_BestEffortDelivery ==
    DegradedFinalization =>
        /\ lastOp.notifies = 1
        /\ lastOp.sends = 1
        /\ ~result.error
        /\ result.tag \in {"phone_collected_debug", "web_fluxo_debug", "success"}
        /\ result.response
              = FinalMessage(Get(After.lead_data, "identification", "Cliente"),
                             Get(After.lead_data, "area_qualification", "nao informada"),
                             lastOp.f.send # "raise")

C9_Witness ==
    /\ DegradedFinalization
    /\ lastOp.f.notify = "raise"
    /\ lastOp.f.send = "raise"
    /\ lastOp.sends = 1
    /\ After.fallback_completed

(***************************************************************************)
(* C10                                                                     *)
(***************************************************************************)
\* C10: when a save_user_session call fails while a message is processed, the
\* response the engine computed for that message is still the response returned.
C10_ComputedResponseReturned ==
    (LastIsProcessMessage /\ SaveFailed)
        => result.response = CleanRun.result.response

(***************************************************************************)
(* C11                                                                     *)
(***************************************************************************)
\* the same message processed against a session id the store does not know
FreshRun == ProcessMessageCall(Absent, lastOp.arg, NoFault)

\* get_user_session failed: it raised or returned nothing
LoadFailed == lastOp.f.get # "ok"

\* C11: when get_user_session fails while process_message loads the session, the
\* engine falls back to a freshly created session and processes the message
\* against it.
C11_ReadFailureFallsBack ==
    (LastIsProcessMessage /\ LoadFailed)
        => /\ result = FreshRun.result
           /\ After = FreshRun.c.db

(***************************************************************************)
(* C12                                                                     *)
(***************************************************************************)
\* the last invocation ran finalization and finalization found no usable phone
FinalizedWithoutPhone ==
    /\ lastOp.op # "none"
    /\ lastOp.finals = 1
    /\ Len(ResolvePhone(After.lead_data)) < 10

\* C12: when finalization finds no phone, or one shorter than 10 digits, it returns
\* the phone-request prompt, invokes neither the lead save nor Notification nor
\* Messaging, leaves phone_submitted false and leaves flow_completed true.
C12_NoPhoneNoFinalization ==
    FinalizedWithoutPhone =>
        /\ result.response = PhoneRequestPrompt
        /\ lastOp.leads = 0
        /\ lastOp.notifies = 0
        /\ lastOp.sends = 0
        /\ ~Before.phone_submitted
        /\ ~After.phone_submitted
        /\ After.fallback_completed
        /\ After.phone_formatted = Before.phone_formatted

C12_Witness ==
    /\ FinalizedWithoutPhone
    /\ After.lead_data["contact_info"] = "joao@email.com"
    /\ result.response = PhoneRequestPrompt
    /\ After.fallback_completed

(***************************************************************************)
(* C13                                                                     *)
(***************************************************************************)
\* C13: for a session with lead_qualified = true and phone_submitted = false, a
\* message containing 10 to 13 digits is taken by the phone re-entry path even
\* though flow_completed is true: the digits are stored as lead_data.phone,
\* finalization runs, and afterwards the stored session has phone_submitted = true.
C13_PhoneReEntry ==
    (LastIsProcessMessage /\ PhoneReEntry)
        => /\ result.tag = "phone_collected_debug"
           /\ After.lead_data["phone"] = DigitsOf(lastOp.arg)
           /\ lastOp.finals = 1
           /\ lastOp.flowfinals = 0
           /\ lastOp.path = "finalized"
           /\ After.phone_submitted
           /\ After.fallback_completed = Before.fallback_completed

C13_Witness ==
    /\ LastIsProcessMessage
    /\ PhoneReEntry
    /\ Before.fallback_completed
    /\ lastOp.arg = "(11) 99999-9999"
    /\ After.lead_data["phone"] = "11999999999"
    /\ After.phone_submitted

(***************************************************************************)
(* C14                                                                     *)
(***************************************************************************)
\* the last answer is a two-character token given to the name step in flexible
\* mode (the attempt counter, incremented for it, is above 3)
TwoCharNameInFlexibleMode ==
    /\ Validated
    /\ Before.fallback_step = 1
    /\ Before.validation_attempts[1] + 1 > MaxAttempts
    /\ Len(Strip(lastOp.arg)) = 2

\* C14: after repeated rejection on the name step (flexible mode) the engine
\* accepts any two-character token as the name, so a user who keeps answering is
\* not held on step 1 indefinitely.
C14_FlexibleNameAccepted ==
    TwoCharNameInFlexibleMode
        => /\ After.fallback_step = 2
           /\ "identification" \in DOMAIN After.lead_data

(***************************************************************************)
(* C15                                                                     *)
(***************************************************************************)
\* the last invocation started from a stored, initialised session
OnInitializedSession ==
    /\ lastOp.op # "none"
    /\ Before # Absent
    /\ Before.flow_initialized

\* C15: after initialization, over any sequence of process_message and
\* handle_phone_number_submission calls, lead_data never loses a key it already
\* holds: the set of fields present in lead_data only grows.
C15_LeadDataKeysGrow ==
    OnInitializedSession
        => /\ After # Absent
           /\ DOMAIN Before.lead_data \subseteq DOMAIN After.lead_data

C15_Witness ==
    /\ OnInitializedSession
    /\ Cardinality(DOMAIN Before.lead_data) >= 3
    /\ DOMAIN Before.lead_data \subseteq DOMAIN After.lead_data
    /\ DOMAIN Before.lead_data # DOMAIN After.lead_data

(***************************************************************************)
(* C16                                                                     *)
(***************************************************************************)
\* C16: flow_completed (fallback_completed) and lead_qualified are monotonic: once
\* either flag is true, no later operation sets it back to false.
C16_FlagsMonotonic ==
    (lastOp.op # "none" /\ Before # Absent)
        => /\ After # Absent
           /\ Before.fallback_completed => After.fallback_completed
           /\ Before.lead_qualified => After.lead_qualified

C16_Witness ==
    /\ LastIsProcessMessage
    /\ Before # Absent
    /\ Before.fallback_completed
    /\ Before.lead_qualified
    /\ Before.phone_submitted
    /\ After.fallback_completed
    /\ After.lead_qualified
    /\ After.message_count = Before.message_count + 1

OutcomeOf(r) == ProcessMessageCall(inflight[r].loaded, inflight[r].message, NoFault).c.path

LastWrite(r) == inflight[r].written[Len(inflight[r].written)]

\* requests r and q ran concurrently on one session: both loaded the same stored
\* state, both have returned, nothing else is running and the store holds the last
\* write of one of them
Raced(r, q) ==
    /\ r # q
    /\ inflight[r].pc = "done"
    /\ inflight[q].pc = "done"
    /\ inflight[r].sid = inflight[q].sid
    /\ inflight[r].loaded = inflight[q].loaded
    /\ inflight[r].loaded # Absent
    /\ inflight[r].loaded.fallback_step \in StepIds
    /\ \A p \in RequestIds : inflight[p].pc # "running"
    /\ store[inflight[r].sid] \in {LastWrite(r), LastWrite(q)}

\* C18: without per-session serialization two messages for the same session
\* processed concurrently can both load the same stored state and overwrite each
\* other, so that an update is lost: for two rejected answers the stored
\* validation_attempts ends one above the loaded value instead of two, and an
\* accepted field is missing from lead_data when the rejecting request writes last.
C18_LostUpdate ==
    \A r, q \in RequestIds :
        Raced(r, q) =>
            /\ (OutcomeOf(r) = "rejected" /\ OutcomeOf(q) = "rejected")
                  => store[inflight[r].sid].validation_attempts[inflight[r].loaded.fallback_step]
                        = inflight[r].loaded.validation_attempts[inflight[r].loaded.fallback_step] + 1
            /\ (OutcomeOf(r) = "advanced" /\ OutcomeOf(q) = "rejected"
                    /\ store[inflight[r].sid] = LastWrite(q))
                  => /\ StepById(inflight[r].loaded.fallback_step).field
                           \notin DOMAIN store[inflight[r].sid].lead_data
                     /\ store[inflight[r].sid].fallback_step = inflight[r].loaded.fallback_step

C18_Witness ==
    \E r, q \in RequestIds :
        /\ Raced(r, q)
        /\ OutcomeOf(r) = "rejected"
        /\ OutcomeOf(q) = "rejected"
        /\ inflight[r].loaded.validation_attempts[1] = 0
        /\ store[inflight[r].sid].validation_attempts[1] = 1
        /\ store[inflight[r].sid].message_count = inflight[r].loaded.message_count + 1

(***************************************************************************)
(* C19                                                                     *)
(***************************************************************************)
\* C19: each inbound message is one atomic read-modify-write cycle, one load
\* followed by one persist of the final state, so no intermediate session state of
\* a message in progress is ever visible in the Session Store to another message.
C19_AtomicReadModifyWrite ==
    \A r \in RequestIds :
        inflight[r].pc # "idle"
            => /\ ~inflight[r].dirty
               /\ Len(inflight[r].written) + Len(inflight[r].pending) = 1

(***************************************************************************)
(* C20                                                                     *)
(***************************************************************************)
\* C20: handle_landing_chat_completion never continues the conversation: every
\* result it returns, on success or error, has conversation_continues = false, it
\* sends at most one confirmation message, and a confirmation send that reports
\* failure does not prevent the lawyer notification from being issued.
C20_LandingNeverContinues ==
    landing.ncalls > 0 =>
        /\ landing.result.flow_type = "landing_chat_completion"
        /\ ~landing.result.conversation_continues
        /\ landing.sends <= 1
        /\ landing.o.send = "false"
              => /\ landing.notifies = 1
                 /\ landing.o.notify # "raise"
                       => /\ landing.result.success
                          /\ ~landing.result.message_sent
                          /\ landing.result.lawyers_notified = (landing.o.notify = "success")

C20_Witness ==
    /\ landing.ncalls > 0
    /\ landing.o.send = "false"
    /\ landing.o.notify = "success"
    /\ landing.notifies = 1
    /\ landing.result.success
    /\ landing.result.lawyers_notified
    /\ landing.sent_to = "5511987654321@s.whatsapp.net"
    /\ landing.phone_number = "1187654321"
    /\ Len(landing.sent_body) > 300

(***************************************************************************)
(* C21                                                                     *)
(***************************************************************************)
\* the last message is short-circuited: it is empty or whitespace only, or it is a
\* greeting token sent to step 1
ShortCircuitInput ==
    /\ AnswersStep
    /\ \/ Strip(lastOp.arg) = ""
       \/ Before.fallback_step = 1 /\ Strip(Lower(lastOp.arg)) \in GreetingTokens

\* C21: a short-circuit input - an exact greeting token while on step 1, or an
\* empty or whitespace-only message on any step - re-emits the current step's
\* question and leaves current_step, lead_data and
\* validation_attempts[current_step] unchanged: no attempt is consumed.
C21_ShortCircuit ==
    ShortCircuitInput =>
        /\ result.response
              = InterpolateMessage(StepById(Before.fallback_step).question, Before.lead_data)
        /\ After.fallback_step = Before.fallback_step
        /\ After.lead_data = Before.lead_data
        /\ After.validation_attempts = Before.validation_attempts
        /\ lastOp.attempt = 0
        /\ lastOp.path \in {"greeting", "empty"}

C21_Witness ==
    /\ ShortCircuitInput
    /\ lastOp.arg = "   "
    /\ Before.fallback_step = 4
    /\ Before.validation_attempts[4] = 3
    /\ After.validation_attempts[4] = 3
    /\ result.response = "Entendi, Joao Silva. Me diga sobre sua situacao em Direito Penal:"

(***************************************************************************)
(* C22                                                                     *)
(***************************************************************************)
\* the last answer reached the validator and was rejected
Rejected == Validated /\ ~Passed

\* C22: a rejected answer changes nothing in the session except the attempt counter
\* of the current step: current_step, lead_data, flow_completed and lead_qualified
\* are unchanged (and so are the other flags and the counters of the other steps),
\* and the incremented counter is persisted.
C22_RejectionFrame ==
    Rejected =>
        /\ lastOp.path = "rejected"
        /\ After.fallback_step = Before.fallback_step
        /\ After.lead_data = Before.lead_data
        /\ After.fallback_completed = Before.fallback_completed
        /\ After.lead_qualified = Before.lead_qualified
        /\ After.flow_initialized = Before.flow_initialized
        /\ After.phone_submitted = Before.phone_submitted
        /\ After.phone_formatted = Before.phone_formatted
        /\ After.validation_attempts
              = [Before.validation_attempts EXCEPT ![Before.fallback_step] = @ + 1]

C22_Witness ==
    /\ Rejected
    /\ Before.fallback_step = 3
    /\ Before.validation_attempts[3] = 3
    /\ After.validation_attempts[3] = 4
    /\ lastOp.arg = "Ana"
    /\ DOMAIN After.lead_data = {"identification", "contact_info", "phone", "email"}

(***************************************************************************)
(* C23                                                                     *)
(***************************************************************************)
\* the attempt count of the answered step, the last answer included
AttemptCount == Before.validation_attempts[Before.fallback_step] + 1

\* C23: the text returned for a rejected answer is a reminder followed by the
\* current question: the step's generic error_message while the attempt count is
\* below 3 (first and second rejection), and the step-specific strict reminder from
\* the rejection on which the count reaches 3 onward.
C23_RejectionText ==
    Rejected =>
        result.response
            = (IF AttemptCount < 3
               THEN StepById(Before.fallback_step).error_message
               ELSE StrictReminder(Before.fallback_step))
              \o "\n\n"
              \o InterpolateMessage(StepById(Before.fallback_step).question, Before.lead_data)

C23_Witness ==
    /\ Rejected
    /\ Before.fallback_step = 2
    /\ AttemptCount = 3
    /\ result.response
          = "Preciso de seu telefone e/ou e-mail. Por favor, digite ao menos um contato valido:"
            \o "\n\n" \o "Prazer, Joao Silva! Qual o melhor telefone/WhatsApp e e-mail?"

(***************************************************************************)
(* C24                                                                     *)
(***************************************************************************)
\* the normalized form of the last answer
Normalized ==
    ValidateAndNormalizeAnswerSchema(lastOp.arg, StepById(Before.fallback_step))

\* the last answer reached the validator and the validator accepted it
Accepted == Validated /\ Verdict(AttemptCount > MaxAttempts)

\* C24: when an answer to step k is accepted and step k+1 exists, lead_data[field
\* of k] is set to the normalized answer (the value on which acceptance was
\* decided), current_step becomes exactly k+1, the counters of k and k+1 are 0, and
\* the response is step k+1's question interpolated with the lead_data accumulated
\* so far.
C24_AcceptAdvances ==
    (Accepted /\ Before.fallback_step + 1 \in StepIds) =>
        /\ After.lead_data[StepById(Before.fallback_step).field] = Normalized
        /\ \A k \in DOMAIN Before.lead_data \ {StepById(Before.fallback_step).field} :
              After.lead_data[k] = Before.lead_data[k]
        /\ After.fallback_step = Before.fallback_step + 1
        /\ After.validation_attempts[Before.fallback_step] = 0
        /\ After.validation_attempts[Before.fallback_step + 1] = 0
        /\ result.response
              = InterpolateMessage(StepById(Before.fallback_step + 1).question,
                                   After.lead_data)

C24_Witness ==
    /\ Accepted
    /\ Before.fallback_step = 3
    /\ AttemptCount = 4
    /\ lastOp.arg = "familia"
    /\ After.lead_data["area_qualification"] = "Familia"
    /\ After.fallback_step = 4
    /\ result.response = "Entendi, Joao Silva. Me diga sobre sua situacao em Familia:"

(***************************************************************************)
(* C25                                                                     *)
(***************************************************************************)
\* the last message met an initialised, unfinished session whose step is no step
\* of the flow
ForeignStepMet ==
    /\ LastIsProcessMessage
    /\ Before # Absent
    /\ Before.flow_initialized
    /\ ~Before.fallback_completed
    /\ Before.fallback_step \notin StepIds

\* C25: if an initialized, not completed session holds a current_step that matches
\* no step of the flow definition, the next message resets current_step to 1 and
\* validation_attempts to {1: 0}, persists, returns the first question, does not
\* validate or store the message, and raises nothing.
C25_SelfHealing ==
    ForeignStepMet =>
        /\ lastOp.path = "reset"
        /\ After.fallback_step = 1
        /\ After.validation_attempts = (1 :> 0)
        /\ After.lead_data = Before.lead_data
        /\ lastOp.attempt = 0
        /\ result.response = Steps[1].question
        /\ result.tag = "web_fluxo_debug"
        /\ ~result.error

C25_Witness ==
    /\ ForeignStepMet
    /\ Before.fallback_step = 6
    /\ Before.validation_attempts = (1 :> 0) @@ (2 :> 0) @@ (3 :> 3)
    /\ lastOp.arg = "Fui preso ontem em Sao Paulo"
    /\ After.fallback_step = 1
    /\ After.validation_attempts = (1 :> 0)
    /\ "case_details" \notin DOMAIN After.lead_data

(***************************************************************************)
(* C26                                                                     *)
(***************************************************************************)
\* the invalid responses as described: the curated tokens, single letters,
\* repeated-character strings and short numerics
DescribedInvalid(answer) ==
    LET response_lower == Strip(Lower(answer))
    IN  \/ response_lower \in InvalidResponses
        \/ Len(response_lower) < 2
        \/ IsDigit(response_lower) /\ Len(response_lower) < 4
        \/ DistinctNonSpace(response_lower) <= 1 /\ Len(response_lower) < 4

\* the last answer is an answer to the name step that reached the validator
NameAnswered == Validated /\ Before.fallback_step = 1

\* C26: on the name step an answer is rejected whenever it belongs to the
\* invalid-response set (bare greetings, single letters, repeated-character
\* strings, short numerics) or consists only of digits, and otherwise accepted when
\* it has at least one token of length >= 2; the decision is the same in strict and
\* in flexible mode, and an accepted name is stored with each whitespace-separated
\* token capitalized.
C26_NameDecision ==
    NameAnswered =>
        /\ Passed <=> /\ ~DescribedInvalid(lastOp.arg)
                      /\ ~IsDigit(Strip(lastOp.arg))
                      /\ LongWords(Strip(lastOp.arg)) # {}
        /\ Verdict(TRUE) = Verdict(FALSE)
        /\ Passed => After.lead_data["identification"]
                        = Join(CapitalizeAll(Split(lastOp.arg)))

(***************************************************************************)
(* C27                                                                     *)
(***************************************************************************)
\* the last answer is an answer to the contact step that reached the validator
ContactAnswered == Validated /\ Before.fallback_step = 2

\* the trimmed text of the last answer
Answer == Strip(lastOp.arg)

HasPhoneOrEmail == PhoneRun(Answer) # "" \/ HasEmail(Answer)

HasClaimedKeyword ==
    ContainsAny(Lower(Answer), {"telefone", "whatsapp", "email", "gmail", "hotmail"})

\* C27 as stated: on the contact step in strict mode an answer of at least the
\* minimum length is accepted if it contains a 10-11 digit run, or an email-like
\* token, or a contact keyword (telefone, whatsapp, email, gmail, hotmail); in
\* flexible mode any of those three signals or a length of at least 8 suffices.
C27_Original ==
    ContactAnswered =>
        IF AttemptCount > 3
        THEN (HasPhoneOrEmail \/ HasClaimedKeyword \/ Len(Answer) >= 8) => Passed
        ELSE (Len(Answer) >= 10 /\ (HasPhoneOrEmail \/ HasClaimedKeyword)) => Passed

\* C27 as amended: on the contact step in strict mode an answer of at least the
\* minimum length is accepted if it contains a 10-11 digit run or an email-like
\* token, and an answer with neither is rejected, contact keyword or not; in
\* flexible mode a 10-11 digit run, an email-like token, a contact keyword
\* (telefone, whatsapp, email, gmail, hotmail) or a length of at least 8 suffices.
C27_Amended ==
    ContactAnswered =>
        IF AttemptCount > 3
        THEN (HasPhoneOrEmail \/ HasClaimedKeyword \/ Len(Answer) >= 8) => Passed
        ELSE /\ (Len(Answer) >= 10 /\ HasPhoneOrEmail) => Passed
             /\ ~HasPhoneOrEmail => ~Passed

C27_Witness ==
    /\ ContactAnswered
    /\ AttemptCount = 3
    /\ lastOp.arg = "telefone fixo"
    /\ ~Passed
    /\ After.validation_attempts[2] = 3

(***************************************************************************)
(* C28                                                                     *)
(***************************************************************************)
\* the last answer is an answer to the area step that reached the validator
AreaAnswered == Validated /\ Before.fallback_step = 3

\* the keywords the claim lists
ClaimedAreaKeywords ==
    {"penal", "criminal", "crime", "saude", "saúde", "liminar", "medica", "médica"}

CanonicalAreas == {"Direito Penal", "Saúde/Liminares"}

\* C28 as stated: on the area step in strict mode an answer is accepted if and
\* only if its lower-cased text contains one of the keywords penal, criminal,
\* crime, saude, saúde, liminar, medica, médica, and the stored value is then the
\* canonical label "Direito Penal" or "Saúde/Liminares"; in flexible mode any
\* answer of length >= 4 is also accepted and stored title-cased when no keyword
\* matched.
C28_Original ==
    AreaAnswered =>
        /\ AttemptCount <= 3
              => (Passed <=> ContainsAny(Lower(Answer), ClaimedAreaKeywords))
        /\ AttemptCount > 3
              => (Passed <=> ContainsAny(Lower(Answer), ClaimedAreaKeywords)
                                \/ Len(Answer) >= 4)
        /\ (Passed /\ ContainsAny(Lower(Answer), ClaimedAreaKeywords))
              => After.lead_data["area_qualification"] \in CanonicalAreas
        /\ (Passed /\ ~ContainsAny(Lower(Answer), ClaimedAreaKeywords))
              => After.lead_data["area_qualification"] = Title(Answer)

\* C28 as amended: on the area step in strict mode an answer is accepted if and
\* only if its lower-cased text contains one of the keywords penal, criminal,
\* crime, saude, saúde, liminar, medica, médica, health, injunction, and the stored
\* value is then the canonical label "Direito Penal" or "Saúde/Liminares"; in
\* flexible mode any answer of length >= 4 is also accepted and stored title-cased
\* when no keyword matched.
C28_Amended ==
    AreaAnswered =>
        /\ AttemptCount <= 3
              => (Passed <=> ContainsAny(Lower(Answer),
                                         ClaimedAreaKeywords \cup {"health", "injunction"}))
        /\ AttemptCount > 3
              => (Passed <=> ContainsAny(Lower(Answer),
                                         ClaimedAreaKeywords \cup {"health", "injunction"})
                                \/ Len(Answer) >= 4)
        /\ (Passed /\ ContainsAny(Lower(Answer),
                                  ClaimedAreaKeywords \cup {"health", "injunction"}))
              => After.lead_data["area_qualification"] \in CanonicalAreas
        /\ (Passed /\ ~ContainsAny(Lower(Answer),
                                   ClaimedAreaKeywords \cup {"health", "injunction"}))
              => After.lead_data["area_qualification"] = Title(Answer)

C28_Witness ==
    /\ AreaAnswered
    /\ AttemptCount = 1
    /\ lastOp.arg = "health"
    /\ Passed
    /\ After.lead_data["area_qualification"] = "Saúde/Liminares"

(***************************************************************************)
(* C29                                                                     *)
(***************************************************************************)
\* the last answer is an answer to the confirmation step that reached the validator
ConfirmationAnswered == Validated /\ Before.fallback_step = 5

\* the answer contains an affirmative keyword
Affirmative == ContainsAny(Lower(Answer), NormalizeConfirmations)

\* C29: on the confirmation step acceptance does not depend on the attempt count:
\* an answer is accepted iff it contains an affirmative keyword or has length >= 2,
\* and the stored value is the literal "Confirmado" exactly when the answer
\* contains an affirmative keyword, otherwise the trimmed raw text.
C29_Confirmation ==
    ConfirmationAnswered =>
        /\ Passed <=> (Affirmative \/ Len(Answer) >= 2)
        /\ Passed <=> (ContainsAny(Lower(Answer), Confirmations) \/ Len(Answer) >= 2)
        /\ Verdict(TRUE) = Verdict(FALSE)
        /\ Passed => After.lead_data["lead_warming"]
                        = (IF Affirmative THEN "Confirmado" ELSE Answer)

C29_Witness ==
    /\ ConfirmationAnswered
    /\ AttemptCount = 1
    /\ lastOp.arg = "não"
    /\ After.fallback_completed
    /\ After.lead_data["lead_warming"] = "não"

(***************************************************************************)
(* C30                                                                     *)
(***************************************************************************)
\* p is a maximal run of digits of s
CompleteDigitRun(s, p) ==
    \E i \in 1..Len(s) :
        /\ i + Len(p) - 1 <= Len(s)
        /\ SubSeq(s, i, i + Len(p) - 1) = p
        /\ IsDigit(p)
        /\ i = 1 \/ Ch(s, i - 1) \notin DigitChars
        /\ i + Len(p) > Len(s) \/ Ch(s, i + Len(p)) \notin DigitChars

\* C30: when the contact step is passed, lead_data.phone is set to the first run of
\* 10-11 consecutive digits of the answer and lead_data.email to the first
\* email-like token, each only if present; the absence of either never fails the
\* step, and a stored phone is always a complete digit run of the answer, 10 or 11
\* digits long.
C30_ContactExtraction ==
    (ContactAnswered /\ Passed) =>
        /\ IF PhoneRun(Answer) # ""
           THEN After.lead_data["phone"] = PhoneRun(Answer)
           ELSE "phone" \notin DOMAIN After.lead_data
        /\ IF HasEmail(Answer)
           THEN After.lead_data["email"] = EmailMatch(Answer)
           ELSE "email" \notin DOMAIN After.lead_data
        /\ "phone" \in DOMAIN After.lead_data
              => /\ Len(After.lead_data["phone"]) \in {10, 11}
                 /\ CompleteDigitRun(Answer, After.lead_data["phone"])

(***************************************************************************)
(* C39                                                                     *)
(***************************************************************************)
\* C39: the relaxation is monotone. For each of the five steps and every
\* answer, an answer the strict mode accepts is also accepted by the flexible
\* mode: flexible mode never rejects what strict mode accepts.
C39_RelaxationMonotone ==
    Validated => (Verdict(FALSE) => Verdict(TRUE))

\* an answer to the case-details step that the strict mode accepts, and a fourth
\* answer to a step that only the flexible mode accepts
C39_Witness ==
    /\ Validated
    /\ Before.fallback_step = 4
    /\ Verdict(FALSE)
    /\ Verdict(TRUE)
    /\ Passed

C39_WitnessRelaxed ==
    /\ Validated
    /\ AttemptCount > MaxAttempts
    /\ ~Verdict(FALSE)
    /\ Verdict(TRUE)
    /\ Passed

(***************************************************************************)
(* C36                                                                     *)
(***************************************************************************)
\* what process_message would have done with the answer "sim" in place of the
\* last answer
HadItBeenSim == ProcessMessageCall(Before, "sim", NoFault)

\* the last invocation did to the session, to the collaborators and to the caller
\* what the answer "sim" would have done, the stored answer and message apart
FinalizedLikeSim ==
    /\ result.response = HadItBeenSim.result.response
    /\ lastOp.finals = HadItBeenSim.c.finals
    /\ lastOp.leads = HadItBeenSim.c.leads
    /\ lastOp.notifies = HadItBeenSim.c.notifies
    /\ lastOp.sends = HadItBeenSim.c.sends
    /\ "lead_warming" \in DOMAIN After.lead_data
    /\ [After EXCEPT !.lead_data["lead_warming"] = "Confirmado"] = HadItBeenSim.c.db

\* C36: a session on step 5 is completed and marked lead_qualified by any answer
\* of two or more characters; the confirmation step cannot decline. The answer
\* "não" is accepted, stored as lead_warming, and triggers finalization exactly
\* like "sim".
C36_ConfirmationCannotDecline ==
    (ConfirmationAnswered /\ Len(Answer) >= 2) =>
        /\ After.fallback_completed
        /\ After.lead_qualified
        /\ After.lead_data["lead_warming"] = Normalized
        /\ lastOp.finals = 1
        /\ FinalizedLikeSim

C36_Witness ==
    /\ ConfirmationAnswered
    /\ lastOp.arg = "não"
    /\ After.lead_qualified
    /\ After.lead_data["lead_warming"] = "não"
    /\ lastOp.finals = 1
    /\ lastOp.notifies = 1
    /\ FinalizedLikeSim

(***************************************************************************)
(* C34                                                                     *)
(***************************************************************************)
\* the message count of a stored session, 0 for a session that is not stored
StoredCount(session) == IF session = Absent THEN 0 ELSE session.message_count

\* C34: the persisted message_count is monotonically increasing: it never
\* decreases, and every inbound message handled by process_message, the phone
\* re-entry path included, raises the stored value by 1.
C34_MessageCount ==
    lastOp.op # "none" =>
        /\ StoredCount(After) >= StoredCount(Before)
        /\ LastIsProcessMessage => StoredCount(After) = StoredCount(Before) + 1

\* the part of C34 the code keeps: the stored count never decreases, and every
\* message that is not taken by the phone re-entry path raises it by 1
C34_CountedOutsideReEntry ==
    lastOp.op # "none" =>
        /\ StoredCount(After) >= StoredCount(Before)
        /\ (LastIsProcessMessage /\ ~PhoneReEntry)
               => StoredCount(After) = StoredCount(Before) + 1
        /\ (LastIsProcessMessage /\ PhoneReEntry) => StoredCount(After) = StoredCount(Before)

(***************************************************************************)
(* C38                                                                     *)
(***************************************************************************)
\* the last invocation reached save_lead_data, which is reached only with a usable
\* phone, and save_lead_data raised
LeadSaveFailed == lastOp.op # "none" /\ lastOp.leads = 1 /\ lastOp.f.lead = "raise"

\* C38: during finalization with a usable phone, a failure of the lead-record save
\* (save_lead_data) skips the Notification call but does not prevent the Messaging
\* collaborator from being attempted, and the success confirmation text is still
\* returned.
C38_LeadSaveFailure ==
    LeadSaveFailed =>
        /\ lastOp.notifies = 0
        /\ lastOp.sends = 1
        /\ result.response = FinalMessage(Get(After.lead_data, "identification", "Cliente"),
                                          Get(After.lead_data, "area_qualification",
                                              "nao informada"),
                                          lastOp.f.send # "raise")

\* what the code does instead: neither collaborator is called and the caller gets
\* the generic thank-you text of the except clause
C38_LeadSaveFailureAborts ==
    LeadSaveFailed =>
        /\ lastOp.notifies = 0
        /\ lastOp.sends = 0
        /\ result.response = FinalizationFallback(Get(After.lead_data, "identification", ""))

(***************************************************************************)
(* C37                                                                     *)
(***************************************************************************)
\* the session reached completion without a usable phone
AwaitingPhone(session) ==
    session # Absent /\ session.fallback_completed /\ ~session.phone_submitted

\* C37: a session that reached completion without a usable phone (flow_completed
\* true, phone_submitted false) answers every later message that does not contain
\* 10 to 13 digits with the static completion acknowledgement, and in that state
\* the Notification and Messaging collaborators have been invoked zero times; they
\* are invoked only after a message of 10 to 13 digits or a phone submission
\* arrives.
C37_AwaitingPhone ==
    /\ \A sid \in SessionIds :
          AwaitingPhone(store[sid]) => calls.notifies = 0 /\ calls.sends = 0
    /\ (LastIsProcessMessage /\ AwaitingPhone(Before) /\ ~IsPhoneNumber(lastOp.arg))
          => /\ result.response = CompletedAck(Get(Before.lead_data, "identification", ""))
             /\ AwaitingPhone(After)
             /\ lastOp.notifies = 0
             /\ lastOp.sends = 0
    /\ (lastOp.op # "none" /\ AwaitingPhone(Before) /\ lastOp.notifies + lastOp.sends > 0)
          => /\ lastOp.op = "handle_phone_number_submission" \/ IsPhoneNumber(lastOp.arg)
             /\ After.phone_submitted

\* a completed session without a phone acknowledges a message that is no phone
\* number, nobody having been notified
C37_Witness ==
    /\ LastIsProcessMessage
    /\ AwaitingPhone(Before)
    /\ AwaitingPhone(After)
    /\ lastOp.arg = "penal"
    /\ result.response = CompletedAck("Joao Silva")
    /\ calls.notifies = 0
    /\ calls.sends = 0

\* the phone then arrives in a message and both collaborators are invoked
C37_WitnessPhoneArrives ==
    /\ LastIsProcessMessage
    /\ AwaitingPhone(Before)
    /\ IsPhoneNumber(lastOp.arg)
    /\ lastOp.notifies = 1
    /\ lastOp.sends = 1
    /\ After.phone_submitted

(***************************************************************************)
(* C35                                                                     *)
(***************************************************************************)
\* the last invocation is a phone submission
LastIsSubmission == lastOp.op = "handle_phone_number_submission"

\* the submitted number has fewer than 10 or more than 13 digits
WrongLength == Len(DigitsOf(lastOp.arg)) < 10 \/ Len(DigitsOf(lastOp.arg)) > 13

\* C35: handle_phone_number_submission changes no stored session state and
\* invokes no Notification or Messaging call when the session id is unknown or
\* when the submitted number has fewer than 10 or more than 13 digits; it raises
\* nothing in either case.
C35_RejectedSubmission ==
    (LastIsSubmission /\ (Before = Absent \/ WrongLength)) =>
        /\ After = Before
        /\ lastOp.nsave = 0
        /\ lastOp.notifies = 0
        /\ lastOp.sends = 0
        /\ result.tag = "success"
        /\ ~result.error
        /\ result.response = (IF WrongLength THEN InvalidPhonePrompt
                              ELSE FinalizationFallback(""))

\* a number of 15 digits submitted to a known session
C35_Witness ==
    /\ LastIsSubmission
    /\ Before # Absent
    /\ Len(DigitsOf(lastOp.arg)) > 13
    /\ After = Before
    /\ result.response = InvalidPhonePrompt

\* a number of 11 digits submitted under an unknown session id
C35_WitnessUnknown ==
    /\ LastIsSubmission
    /\ Before = Absent
    /\ ~WrongLength
    /\ After = Absent
    /\ result.tag = "success"

(***************************************************************************)
(* C31                                                                     *)
(***************************************************************************)
\* _format_brazilian_phone was applied to a non-empty argument
PhoneFormatted ==
    /\ applied.fn = "_format_brazilian_phone"
    /\ applied.returned # << >>
    /\ applied.args[1] # ""

\* the digits of the argument, one leading "55" dropped
NationalDigits ==
    LET digits == DigitsOf(applied.args[1])
    IN  IF Len(digits) >= 2 /\ SubSeq(digits, 1, 2) = "55"
        THEN SubSeq(digits, 3, Len(digits)) ELSE digits

\* a 2-digit area code followed by an 8-digit local number that starts with 6 to 9
AreaAndOldMobile ==
    /\ Len(NationalDigits) = 2 + 8
    /\ Ch(NationalDigits, 3) \in {"6", "7", "8", "9"}

\* C31: _format_brazilian_phone strips non-digits, drops one leading "55", and
\* returns "55" followed by the rest, inserting a mobile "9" after the 2-digit area
\* code whenever the 8-digit local number starts with 6-9, for inputs of 8, 9, 10
\* and 11 digits; any other length is only prefixed with "55". In particular
\* "11987654321" gives "5511987654321", and a 10-digit number with area 11 and a
\* local number starting with 7 gives a 13-digit result with the 9 inserted.
C31_Canonicalization ==
    PhoneFormatted =>
        /\ applied.returned[1] =
              (IF AreaAndOldMobile
               THEN "55" \o SubSeq(NationalDigits, 1, 2) \o "9" \o SubSeq(NationalDigits, 3, 10)
               ELSE "55" \o NationalDigits)
        /\ Len(NationalDigits) \notin 8..11 => applied.returned[1] = "55" \o NationalDigits
        /\ applied.args[1] = "11987654321" => applied.returned[1] = "5511987654321"
        /\ applied.args[1] = "1176543210"
              => Len(applied.returned[1]) = 13 /\ applied.returned[1] = "5511976543210"

C31_Witness ==
    /\ PhoneFormatted
    /\ applied.args[1] = "+55 (11) 7654-3210"
    /\ AreaAndOldMobile
    /\ applied.returned[1] = "5511976543210"

(***************************************************************************)
(* C40                                                                     *)
(***************************************************************************)
\* _format_brazilian_phone was applied to a digit string, then to its own result
PhoneFormattedTwice ==
    /\ applied.fn = "_format_brazilian_phone"
    /\ Len(applied.returned) >= 2
    /\ DigitsOf(applied.args[1]) = applied.args[1]

\* C40: phone canonicalization is idempotent: for every digit string p,
\* _format_brazilian_phone(_format_brazilian_phone(p)) = _format_brazilian_phone(p),
\* and every non-empty result starts with "55".
C40_CanonicalizationIdempotent ==
    /\ PhoneFormattedTwice => applied.returned[2] = applied.returned[1]
    /\ \A i \in 1..Len(applied.returned) :
          (applied.fn = "_format_brazilian_phone" /\ applied.returned[i] # "")
              => Len(applied.returned[i]) >= 2 /\ SubSeq(applied.returned[i], 1, 2) = "55"

\* a 12-digit number with its country code: the 9 is inserted once, not twice
C40_Witness ==
    /\ PhoneFormattedTwice
    /\ applied.args[1] = "551176543210"
    /\ applied.returned[1] = "5511976543210"
    /\ applied.returned[2] = "5511976543210"

(***************************************************************************)
(* C32                                                                     *)
(***************************************************************************)
\* _interpolate_message was applied to a non-empty template
Interpolated ==
    /\ applied.fn = "_interpolate_message"
    /\ applied.returned # << >>
    /\ applied.args[1] # ""

\* the lead_data field behind each placeholder
PlaceholderFields ==
    [user_name |-> "identification", area |-> "area_qualification",
     contact_info |-> "contact_info", case_details |-> "case_details", phone |-> "phone",
     case_summary |-> "case_details"]

\* the text the claim gives for a placeholder, "" when the field is absent or empty
ClaimedValue(lead_data, key) ==
    LET field == IF PlaceholderFields[key] \in DOMAIN lead_data
                 THEN lead_data[PlaceholderFields[key]] ELSE ""
    IN  IF key = "case_summary" /\ Len(field) > 100
        THEN SubSeq(field, 1, 100) \o "..." ELSE field

\* the placeholder that starts at position i of the template, "" if there is none
PlaceholderAt(message, i) ==
    LET found == {key \in DOMAIN PlaceholderFields :
                     /\ i + Len(key) + 1 <= Len(message)
                     /\ SubSeq(message, i, i + Len(key) + 1) = "{" \o key \o "}"}
    IN  IF found = {} THEN "" ELSE CHOOSE key \in found : TRUE

\* the template read from position i, each placeholder of a non-empty field
\* replaced by the field's text and everything else copied
RECURSIVE Substituted(_, _, _)
Substituted(message, lead_data, i) ==
    IF i > Len(message) THEN ""
    ELSE LET key == PlaceholderAt(message, i)
         IN  IF key # "" /\ ClaimedValue(lead_data, key) # ""
             THEN ClaimedValue(lead_data, key)
                      \o Substituted(message, lead_data, i + Len(key) + 2)
             ELSE SubSeq(message, i, i) \o Substituted(message, lead_data, i + 1)

\* no field of lead_data holds the text of a placeholder
PlainFields(lead_data) ==
    \A field \in DOMAIN lead_data :
        \A i \in 1..Len(lead_data[field]) : PlaceholderAt(lead_data[field], i) = ""

\* C32: _interpolate_message replaces a placeholder ({user_name}, {area},
\* {contact_info}, {case_details}, {phone}, {case_summary}) only when the
\* corresponding lead_data field is non-empty and leaves placeholders of absent
\* fields verbatim; {case_summary} is case_details cut to its first 100 characters
\* plus "..." when case_details is longer than 100 characters, and case_details
\* itself otherwise; lead_data is not modified.
C32_Replaced ==
    Interpolated =>
        /\ PlainFields(applied.args[2])
              => applied.returned[1] = Substituted(applied.args[1], applied.args[2], 1)
        /\ \A key \in DOMAIN PlaceholderFields :
              (ClaimedValue(applied.args[2], key) = ""
                   /\ Contains(applied.args[1], "{" \o key \o "}"))
                  => Contains(applied.returned[1], "{" \o key \o "}")

C32_Interpolation == []C32_Replaced /\ [][applied'.args = applied.args]_vars

\* a template with every placeholder, interpolated with a lead_data that has no
\* phone and a case description of more than 100 characters
C32_Witness ==
    /\ Interpolated
    /\ PlainFields(applied.args[2])
    /\ applied.args[1]
          = "{user_name}; {area}; {contact_info}; {case_details}; {phone}; {case_summary}"
    /\ "phone" \notin DOMAIN applied.args[2]
    /\ Len(ClaimedValue(applied.args[2], "case_details")) > 100
    /\ Len(ClaimedValue(applied.args[2], "case_summary")) = 103
    /\ Contains(applied.returned[1], "; {phone}; Fui preso")
    /\ ~Contains(applied.returned[1], "{case_summary}")

(***************************************************************************)
(* C33                                                                     *)
(***************************************************************************)
\* _interpolate_message was applied to a template, then to its own result, with
\* the same lead_data
InterpolatedTwice == applied.fn = "_interpolate_message" /\ Len(applied.returned) >= 2

\* C33: interpolation is idempotent: for every template t and every lead_data d
\* that the flow can produce, interpolate(interpolate(t, d), d) = interpolate(t, d),
\* because no placeholder of a present field remains after one pass.
C33_InterpolationIdempotent ==
    InterpolatedTwice => applied.returned[2] = applied.returned[1]

\* the part of C33 the code keeps: interpolation is idempotent when no field of
\* lead_data holds the text of a placeholder
C33_IdempotentOnPlainFields ==
    (InterpolatedTwice /\ PlainFields(applied.args[2]))
        => applied.returned[2] = applied.returned[1]

\* the question of step 2 interpolated twice with the name "Joao {user_name}"
C33_PlaceholderInName ==
    ~ /\ InterpolatedTwice
      /\ applied.args[1] = Steps[2].question
      /\ applied.args[2] = StoredAfter(<<"oi", "Joao {user_name}">>).lead_data
      /\ applied.returned[1] = "Prazer, Joao {user_name}! Qual o melhor telefone/WhatsApp e e-mail?"
      /\ applied.returned[2]
            = "Prazer, Joao Joao {user_name}! Qual o melhor telefone/WhatsApp e e-mail?"
====
